---- MODULE Spec2Model ----
(***************************************************************************)
(* Model of the federation layer of rag-agent-infra-api: the collection    *)
(* namespace (build/parse of collection names and pattern discovery), the  *)
(* fan-out searches, the cached collection handles, the context            *)
(* assembler's budget split, drift detection, the memory service (store,   *)
(* read, promote, cleanup), the AWS inventory fetch, metadata              *)
(* sanitization, the Redis session store and the live-state sync.          *)
(*                                                                         *)
(* A Python string is a sequence of symbols.  The symbols of identifiers   *)
(* are single characters; the fixed words the code passes as index group   *)
(* and subindex ("terraform", "semantic", ...) contain no "_" and no regex *)
(* metacharacter and are kept as one symbol each.                          *)
(***************************************************************************)
EXTENDS Integers, Sequences, FiniteSets, TLC

VARIABLES
    pc,             \* position of the component under check
    addr,           \* namespace: the address tuple handed to build_collection_name
    name,           \* namespace: the collection name built from addr
    parsed,         \* namespace: parse_collection_name(name)
    sameName,       \* namespace: the other addresses that build the same name
    collections,    \* discovery: the names of the collections the store holds
    lookup,         \* discovery: the last candidate resolution and what it selected
    store,          \* fan-out: the candidate collections, in discovery order, each
                    \*   the documents the store ranks for the query, nearest first
    result,         \* fan-out: the last search request and what it returned
    chroma,         \* handles: collection name -> generation of the collection the
                    \*   chromadb client holds under that name (0: none)
    made,           \* handles: collection name -> how often it has been created
    cache,          \* handles: service instance -> its _collections_cache
    cres,           \* handles: the last store operation and its outcome
    matching,       \* context: block -> how many items its store holds that
                    \*   match the request's query (messages, for the session)
    contentLen,     \* context: the length of the stored items' text fields
    ctx,            \* context: the last build_agent_context request and reply
    stateDocs,      \* drift: the records get_state_resources returns for the type
    liveDocs,       \* drift: the records the live inventory holds for the type
    cmp,            \* drift: the last compare_state_vs_live request and its reply
    sessionColl,    \* memory: memory id -> record, the memory__session collection of the user
    longtermColl,   \* memory: memory id -> record, the memory__longterm collection
    nextId,         \* memory: how many memory ids store_memory has drawn
    mres,           \* memory: the last memory operation and what it returned
    aws,            \* fetcher: resource type -> what its AWS describe call does now
    fres,           \* fetcher: the last fetch_all_resources request and its reply
    metaColl,       \* metadata: document id -> the metadata dict the collection stores for it
    metaRes,        \* metadata: the last add_documents / update_documents call
    redis,          \* sessions: Redis key -> the session stored under it and its remaining TTL
    calls,          \* sessions: call slot -> the SessionService call in flight in it
    dead,           \* sessions: the keys that were deleted or have expired
    acked,          \* sessions: the messages whose add_message returned True, in order of completion
    sres,           \* sessions: the last get_session / delete_session call and its reply
    workers,        \* memory steps: worker -> the MemoryService call it is executing
    started,        \* memory steps: how many get_memory reads have been issued
    reads,          \* memory steps: memory id -> how many get_memory calls have returned it
    plog,           \* memory steps: the store operations the promotion in flight has done
    liveIndex,      \* sync: the resources the context__live collection of the account holds
    syncRes         \* sync: the last sync_live_state call and its reply

vars == <<pc, addr, name, parsed, sameName, collections, lookup, store, result,
          chroma, made, cache, cres, matching, contentLen, ctx,
          stateDocs, liveDocs, cmp,
          sessionColl, longtermColl, nextId, mres,
          aws, fres,
          metaColl, metaRes,
          redis, calls, dead, acked, sres,
          workers, started, reads, plog,
          liveIndex, syncRes>>
nsVars == <<addr, name, parsed, sameName>>
discVars == <<collections, lookup>>
searchVars == <<store, result>>
cacheVars == <<chroma, made, cache, cres>>
budgetVars == <<matching, contentLen, ctx>>
driftVars == <<stateDocs, liveDocs, cmp>>
memVars == <<sessionColl, longtermColl, nextId, mres>>
fetchVars == <<aws, fres>>
metaVars == <<metaColl, metaRes>>
sessVars == <<redis, calls, dead, acked, sres>>
stepVars == <<workers, started, reads, plog>>
syncVars == <<liveIndex, syncRes>>

\* ------------------------------------------------------------------------
\* Values
\* ------------------------------------------------------------------------

\* Python's None.
None == <<"None">>

\* The separator of collection names, "__".
SEP == <<"_", "_">>

\* Longest identifier (user, account, project id) the namespace checks draw.
MaxIdLen == 2

\* The characters identifiers of the namespace checks are made of.
IdChars == {"a", "_"}

RECURSIVE StringsUpTo(_, _)
StringsUpTo(chars, n) ==
    IF n = 0 THEN {<<>>}
    ELSE LET shorter == StringsUpTo(chars, n - 1)
         IN  shorter \cup {Append(s, c) : s \in shorter, c \in chars}

\* Non-empty identifiers.
Ids == StringsUpTo(IdChars, MaxIdLen) \ {<<>>}

\* s contains the separator "__".
ContainsSep(s) == \E i \in 1..(Len(s) - 1) : s[i] = "_" /\ s[i + 1] = "_"

\* The (index_group, subindex) pairs the services use.
GroupSubs ==
    { <<"terraform", "semantic">>, <<"memory", "session">>,
      <<"memory", "longterm">>, <<"memory", "decisions">>,
      <<"context", "state">>, <<"context", "live">> }

\* Address tuples: account_id and project_id are optional, each on its own.
Addresses ==
    { [index_group |-> gs[1], subindex |-> gs[2], user_id |-> u,
       account_id |-> a, project_id |-> p] :
        gs \in GroupSubs, u \in Ids, a \in Ids \cup {None}, p \in Ids \cup {None} }

\* ------------------------------------------------------------------------
\* MultiVectorStoreService: names
\* ------------------------------------------------------------------------

\* Python truthiness of an Optional[str]: None and "" are falsy.
Truthy(s) == s # None /\ s # <<>>

\* "__".join(parts)
RECURSIVE Join(_)
Join(parts) ==
    IF Len(parts) = 0 THEN <<>>
    ELSE IF Len(parts) = 1 THEN parts[1]
    ELSE parts[1] \o SEP \o Join(Tail(parts))

build_collection_name(index_group, subindex, user_id, account_id, project_id) ==
    Join(<<<<index_group>>, <<subindex>>, user_id>>
         \o (IF Truthy(account_id) THEN <<account_id>> ELSE <<>>)
         \o (IF Truthy(project_id) THEN <<project_id>> ELSE <<>>))

\* str.split("__"): the leftmost, non-overlapping occurrences of the separator.
RECURSIVE Split(_)
Split(s) ==
    IF ContainsSep(s)
    THEN LET i == CHOOSE k \in 1..(Len(s) - 1) :
                    /\ s[k] = "_" /\ s[k + 1] = "_"
                    /\ \A m \in 1..(k - 1) : ~(s[m] = "_" /\ s[m + 1] = "_")
         IN  <<SubSeq(s, 1, i - 1)>> \o Split(SubSeq(s, i + 2, Len(s)))
    ELSE <<s>>

parse_collection_name(collection_name) ==
    LET parts == Split(collection_name)
        at(i) == IF Len(parts) >= i THEN parts[i] ELSE None
    IN  [index_group |-> at(1), subindex |-> at(2), user_id |-> at(3),
         account_id |-> at(4), project_id |-> at(5)]

BuildAddr(a) ==
    build_collection_name(a.index_group, a.subindex, a.user_id,
                          a.account_id, a.project_id)

\* ------------------------------------------------------------------------
\* Namespace check: one address is built, parsed and compared with the rest
\* ------------------------------------------------------------------------

NsInit ==
    /\ pc = "ns_start"
    /\ addr \in Addresses
    /\ name = None
    /\ parsed = None
    /\ sameName = {}
    /\ collections = {}
    /\ lookup = [op |-> "none"]
    /\ store = <<>>
    /\ result = [op |-> "none"]
    /\ chroma = <<>> /\ made = <<>> /\ cache = <<>> /\ cres = [op |-> "none"]
    /\ matching = <<>> /\ contentLen = 0 /\ ctx = [op |-> "none"]
    /\ liveIndex = {} /\ syncRes = [op |-> "none"]
    /\ workers = <<>> /\ started = 0 /\ reads = 0 /\ plog = <<>>
    /\ redis = <<>> /\ calls = <<>> /\ dead = {} /\ acked = <<>> /\ sres = [op |-> "none"]
    /\ metaColl = <<>> /\ metaRes = [op |-> "none"]
    /\ aws = <<>> /\ fres = [op |-> "none"]
    /\ sessionColl = <<>> /\ longtermColl = <<>> /\ nextId = 0 /\ mres = [op |-> "none"]
    /\ stateDocs = <<>> /\ liveDocs = <<>> /\ cmp = [op |-> "none"]

NsBuild ==
    /\ pc = "ns_start"
    /\ name' = BuildAddr(addr)
    /\ pc' = "ns_built"
    /\ UNCHANGED <<addr, parsed, sameName, discVars, searchVars, cacheVars, budgetVars, driftVars, memVars, fetchVars, metaVars, sessVars, stepVars, syncVars>>

NsParse ==
    /\ pc = "ns_built"
    /\ parsed' = parse_collection_name(name)
    /\ pc' = "ns_parsed"
    /\ UNCHANGED <<addr, name, sameName, discVars, searchVars, cacheVars, budgetVars, driftVars, memVars, fetchVars, metaVars, sessVars, stepVars, syncVars>>

NsCompare ==
    /\ pc = "ns_parsed"
    /\ sameName' = {b \in Addresses : b # addr /\ BuildAddr(b) = name}
    /\ pc' = "ns_done"
    /\ UNCHANGED <<addr, name, parsed, discVars, searchVars, cacheVars, budgetVars, driftVars, memVars, fetchVars, metaVars, sessVars, stepVars, syncVars>>

NsNext == NsBuild \/ NsParse \/ NsCompare

SpecNs == NsInit /\ [][NsNext]_vars

\* No field of the address contains the separator.
NoSepInFields(a) ==
    /\ ~ContainsSep(a.user_id)
    /\ a.account_id # None => ~ContainsSep(a.account_id)
    /\ a.project_id # None => ~ContainsSep(a.project_id)

\* The index group and subindex of a parsed name are one-symbol strings.
FieldsOf(p) ==
    [index_group |-> IF p.index_group = None THEN None ELSE p.index_group[1],
     subindex |-> IF p.subindex = None THEN None ELSE p.subindex[1],
     user_id |-> p.user_id, account_id |-> p.account_id,
     project_id |-> p.project_id]

\* C1: for every address with no field containing "__", parsing the built
\* name gives back each present field at its own position and reports the
\* absent fields as absent (account_id absent with project_id present
\* included).
C1_RoundTrip ==
    (pc \in {"ns_parsed", "ns_done"} /\ NoSepInFields(addr))
        => FieldsOf(parsed) = addr

\* C2: two addresses that differ in a present field, or in which fields are
\* present, never build the same collection name.
C2_Injective ==
    pc = "ns_done" => sameName = {}

\* C21: build_collection_name rejects an address one of whose fields contains
\* the separator "__": no collection name is built from it, so no store
\* operation can be issued under such a name.
C21_SeparatorRejection ==
    (pc # "ns_start" /\ ~NoSepInFields(addr)) => name = None

\* ------------------------------------------------------------------------
\* Regular expressions, as far as list_collections' patterns use them
\* ------------------------------------------------------------------------

\* re.compile: the pattern text is read left to right.  "^" and "$" are
\* anchors, "." any character, "*" and "+" repeat the atom before them, a
\* group "(x|y)" is an alternation, every other symbol stands for itself.
\* An identifier pasted into the pattern unescaped is read by the same rules.
RegexLast(acc, kind) ==
    IF Len(acc) = 0 \/ acc[Len(acc)].k \notin {"lit", "any"}
    THEN Append(acc, [k |-> "error"])
    ELSE SubSeq(acc, 1, Len(acc) - 1) \o <<[k |-> kind, of |-> acc[Len(acc)]]>>

RECURSIVE CompileFrom(_, _, _)
RECURSIVE GroupAlts(_, _, _, _)

\* The alternatives of the group opened before position i: the set of atom
\* sequences, and the position after the closing ")".
GroupAlts(text, i, cur, alts) ==
    IF i > Len(text) THEN [alts |-> {<<[k |-> "error"]>>}, next |-> i]
    ELSE IF text[i] = ")" THEN
        [alts |-> alts \cup {CompileFrom(cur, 1, <<>>)}, next |-> i + 1]
    ELSE IF text[i] = "|" THEN
        GroupAlts(text, i + 1, <<>>, alts \cup {CompileFrom(cur, 1, <<>>)})
    ELSE GroupAlts(text, i + 1, Append(cur, text[i]), alts)

CompileFrom(text, i, acc) ==
    IF i > Len(text) THEN acc
    ELSE IF text[i] = "^" THEN CompileFrom(text, i + 1, Append(acc, [k |-> "bol"]))
    ELSE IF text[i] = "$" THEN CompileFrom(text, i + 1, Append(acc, [k |-> "eol"]))
    ELSE IF text[i] = "." THEN CompileFrom(text, i + 1, Append(acc, [k |-> "any"]))
    ELSE IF text[i] = "*" THEN CompileFrom(text, i + 1, RegexLast(acc, "star"))
    ELSE IF text[i] = "+" THEN CompileFrom(text, i + 1, RegexLast(acc, "plus"))
    ELSE IF text[i] = "(" THEN
        LET g == GroupAlts(text, i + 1, <<>>, {})
        IN  CompileFrom(text, g.next, Append(acc, [k |-> "alt", alts |-> g.alts]))
    ELSE CompileFrom(text, i + 1, Append(acc, [k |-> "lit", c |-> text[i]]))

re_compile(pattern) == CompileFrom(pattern, 1, <<>>)

\* One character against a one-character atom.
MatchOne(atom, c) == atom.k = "any" \/ (atom.k = "lit" /\ atom.c = c)

\* The atoms match some prefix of s[j..] (backtracking search for a match).
RECURSIVE MatchAt(_, _, _)
MatchAt(atoms, s, j) ==
    IF Len(atoms) = 0 THEN TRUE
    ELSE LET h == Head(atoms)
             rest == Tail(atoms)
         IN  CASE h.k = "bol" -> j = 1 /\ MatchAt(rest, s, j)
               [] h.k = "eol" -> j = Len(s) + 1 /\ MatchAt(rest, s, j)
               [] h.k \in {"lit", "any"} ->
                    j <= Len(s) /\ MatchOne(h, s[j]) /\ MatchAt(rest, s, j + 1)
               [] h.k \in {"star", "plus"} ->
                    \E n \in (IF h.k = "plus" THEN 1 ELSE 0)..(Len(s) + 1 - j) :
                        /\ \A m \in j..(j + n - 1) : MatchOne(h.of, s[m])
                        /\ MatchAt(rest, s, j + n)
               [] h.k = "alt" -> \E w \in h.alts : MatchAt(w \o rest, s, j)
               [] OTHER -> FALSE

\* regex.match(c): a match that starts at the beginning of c; it need not
\* reach the end of c.
re_match(regex, c) == MatchAt(regex, c, 1)

\* A variant that requires the whole name to match (re.fullmatch).
list_collections_fullmatch(all_collections, pattern) ==
    {c \in all_collections :
        MatchAt(Append(re_compile(pattern), [k |-> "eol"]), c, 1)}

\* MultiVectorStoreService.list_collections(pattern) over the store's names.
list_collections(all_collections, pattern) ==
    {c \in all_collections : re_match(re_compile(pattern), c)}

\* ------------------------------------------------------------------------
\* Discovery: which collections a user-scoped request reaches
\* ------------------------------------------------------------------------

\* Most collections the discovery checks keep in the store at once.
MaxColls == 2

\* Identifiers of the discovery checks: a user id that is a prefix of
\* another, one with a "+" in it (plus addressing), and an account id that
\* is also a user id.
UserIds == {<<"a">>, <<"a", "a">>, <<"a", "+">>}
AccountIds == {<<"a">>, <<"c">>}
ProjectIds == {<<"p">>}

\* TerraformIndexService._get_collection_name
TfCollectionName(user_id, account_id, project_id) ==
    build_collection_name("terraform", "semantic", user_id, account_id, project_id)

\* ContextService._get_collection_name
CtxCollectionName(user_id, account_id, source_type) ==
    build_collection_name("context", source_type, user_id, account_id, None)

\* MemoryService._get_collection_name
MemCollectionName(user_id, memory_type) ==
    build_collection_name("memory", memory_type, user_id, None, None)

\* The pattern of semantic_search when account_id or project_id is missing.
TfSearchPattern(user_id, account_id) ==
    <<"^", "terraform", "_", "_", "semantic", "_", "_">> \o user_id
        \o (IF Truthy(account_id) THEN SEP \o account_id ELSE <<>>)

\* The pattern of search_context when account_id is missing.
CtxSearchPattern(user_id) ==
    <<"^", "context", "_", "_", "(", "state", "|", "live", ")", "_", "_">> \o user_id

\* The patterns of cleanup_user_data.
CleanupPattern(index_group, user_id) ==
    <<"^", index_group, "_", "_", ".", "*", "_", "_">> \o user_id

\* The candidate collections of semantic_search.
TfCandidates(all_collections, user_id, account_id, project_id) ==
    IF Truthy(account_id) /\ Truthy(project_id)
    THEN {TfCollectionName(user_id, account_id, project_id)}
    ELSE list_collections(all_collections, TfSearchPattern(user_id, account_id))

\* The candidate collections of search_context (no source_type given).
CtxCandidates(all_collections, user_id, account_id) ==
    IF Truthy(account_id)
    THEN {CtxCollectionName(user_id, account_id, "state"),
          CtxCollectionName(user_id, account_id, "live")}
    ELSE list_collections(all_collections, CtxSearchPattern(user_id))

\* The collections cleanup_user_data lists and deletes.
CleanupCandidates(all_collections, user_id) ==
    UNION {list_collections(all_collections, CleanupPattern(g, user_id)) :
            g \in {"terraform", "memory", "context"}}

\* ------------------------------------------------------------------------
\* SessionService: keys and stored sessions
\* ------------------------------------------------------------------------

\* Sessions the discovery check creates at most.
MaxSessions == 1

\* settings.session_default_ttl, in ticks of the session clock (3600 s in the
\* source).
DefaultTtl == 2

\* _build_key: "session:{user_id}:{session_id}"
build_key(user_id, session_id) == [user_id |-> user_id, session_id |-> session_id]

\* The value create_session stores: no messages, empty context and state.
\* (Of SessionData the messages, the context and the state are kept.)
NewSession(ttl) ==
    [messages |-> <<>>, context |-> {}, state |-> {}]

\* redis.delete(key) / expiry of key
RedisWithout(db, key) == [k \in DOMAIN db \ {key} |-> db[k]]

DiscInit ==
    /\ pc = "disc"
    /\ collections = {}
    /\ lookup = [op |-> "none"]
    /\ addr = None /\ name = None /\ parsed = None /\ sameName = {}
    /\ store = <<>>
    /\ result = [op |-> "none"]
    /\ chroma = <<>> /\ made = <<>> /\ cache = <<>> /\ cres = [op |-> "none"]
    /\ matching = <<>> /\ contentLen = 0 /\ ctx = [op |-> "none"]
    /\ liveIndex = {} /\ syncRes = [op |-> "none"]
    /\ workers = <<>> /\ started = 0 /\ reads = 0 /\ plog = <<>>
    /\ redis = <<>> /\ calls = <<>> /\ dead = {} /\ acked = <<>> /\ sres = [op |-> "none"]
    /\ metaColl = <<>> /\ metaRes = [op |-> "none"]
    /\ aws = <<>> /\ fres = [op |-> "none"]
    /\ sessionColl = <<>> /\ longtermColl = <<>> /\ nextId = 0 /\ mres = [op |-> "none"]
    /\ stateDocs = <<>> /\ liveDocs = <<>> /\ cmp = [op |-> "none"]

\* A first write to a collection creates it (get_or_create_collection).
DiscCreate(n) ==
    /\ n \notin collections
    /\ Cardinality(collections) < MaxColls
    /\ collections' = collections \cup {n}
    /\ lookup' = [op |-> "none"]
    /\ UNCHANGED <<pc, nsVars, searchVars, cacheVars, budgetVars, driftVars, memVars, fetchVars, metaVars, sessVars, stepVars, syncVars>>

\* index_files of a terraform project
DiscIndexTerraform ==
    \E u \in UserIds, a \in AccountIds, p \in ProjectIds :
        DiscCreate(TfCollectionName(u, a, p))

\* store_state_resources / sync_live_state of an account
DiscIndexContext ==
    \E u \in UserIds, a \in AccountIds, st \in {"state", "live"} :
        DiscCreate(CtxCollectionName(u, a, st))

\* store_memory / store_decision
DiscStoreMemory ==
    \E u \in UserIds, mt \in {"session", "longterm", "decisions"} :
        DiscCreate(MemCollectionName(u, mt))

\* create_session: a session of user_id under a fresh session id
DiscCreateSession ==
    \E u \in UserIds :
        /\ Cardinality(DOMAIN redis) < MaxSessions
        /\ redis' = (build_key(u, Cardinality(DOMAIN redis) + 1)
                        :> [session |-> NewSession(DefaultTtl), ttl |-> DefaultTtl]) @@ redis
        /\ lookup' = [op |-> "none"]
        /\ UNCHANGED <<pc, collections, calls, dead, acked, sres, nsVars, searchVars,
                       cacheVars, budgetVars, driftVars, memVars, fetchVars, metaVars, stepVars, syncVars>>

\* semantic_search: the collections it queries on behalf of user_id.  (A
\* search leaves the store as it is; searches are taken from the states with
\* no lookup on record.)
DiscSemanticSearch ==
    \E u \in UserIds, a \in AccountIds \cup {None}, p \in ProjectIds \cup {None} :
        /\ lookup.op = "none"
        /\ lookup' = [op |-> "semantic_search", user_id |-> u, account_id |-> a,
                      project_id |-> p,
                      selected |-> TfCandidates(collections, u, a, p)]
        /\ UNCHANGED <<pc, collections, nsVars, searchVars, cacheVars, budgetVars, driftVars, memVars, fetchVars, metaVars, sessVars, stepVars, syncVars>>

\* search_context: the collections it queries on behalf of user_id
DiscSearchContext ==
    \E u \in UserIds, a \in AccountIds \cup {None} :
        /\ lookup.op = "none"
        /\ lookup' = [op |-> "search_context", user_id |-> u, account_id |-> a,
                      project_id |-> None,
                      selected |-> CtxCandidates(collections, u, a)]
        /\ UNCHANGED <<pc, collections, nsVars, searchVars, cacheVars, budgetVars, driftVars, memVars, fetchVars, metaVars, sessVars, stepVars, syncVars>>

\* cleanup_user_data: every listed collection is deleted
DiscCleanupUserData ==
    \E u \in UserIds :
        LET doomed == CleanupCandidates(collections, u)
        IN  /\ lookup' = [op |-> "cleanup_user_data", user_id |-> u,
                          account_id |-> None, project_id |-> None,
                          selected |-> doomed]
            /\ collections' = collections \ doomed
            /\ UNCHANGED <<pc, nsVars, searchVars, cacheVars, budgetVars, driftVars, memVars, fetchVars, metaVars, sessVars, stepVars, syncVars>>

DiscNext ==
    \/ DiscIndexTerraform
    \/ DiscIndexContext
    \/ DiscStoreMemory
    \/ DiscSemanticSearch
    \/ DiscSearchContext
    \/ DiscCleanupUserData
    \/ DiscCreateSession

SpecDisc == DiscInit /\ [][DiscNext]_vars

\* C3: every collection a user-scoped lookup selects for user U decodes to
\* user_id = U at the user position, so no other user's collection is
\* queried or deleted on behalf of U.
C3_TenantIsolation ==
    lookup.op # "none" =>
        \A c \in lookup.selected :
            parse_collection_name(c).user_id = lookup.user_id

\* C23: when cleanup_user_data has completed for a user, no collection of
\* that user is left in the terraform, memory or context group and no
\* session of that user is left in the session store.
C23_UserDataCleanup ==
    lookup.op = "cleanup_user_data" =>
        /\ \A c \in collections : parse_collection_name(c).user_id # lookup.user_id
        /\ \A k \in DOMAIN redis : k.user_id # lookup.user_id

\* The terraform addresses that are field-wise consistent with a lookup.
TfConsistent(l) ==
    {a \in [index_group : {"terraform"}, subindex : {"semantic"},
            user_id : {l.user_id}, account_id : AccountIds,
            project_id : ProjectIds] :
        /\ l.account_id # None => a.account_id = l.account_id
        /\ l.project_id # None => a.project_id = l.project_id}

MaxSearchColls == 2

\* Most documents in the candidate collections together.
MaxHits == 3

\* Largest top_k a request asks for (the API requires top_k >= 1).
MaxTopK == 3

\* The distances of documents from the query: near and far.
Distances == {0, 1}

Min(a, b) == IF a < b THEN a ELSE b

\* A document as the query sees it: its distance from the query text and
\* whether it passes the caller's post-filter (resource types, tags).
Docs == [dist : Distances, keep : BOOLEAN]

\* The number of documents in the candidate collections.
RECURSIVE TotalDocs(_)
TotalDocs(st) == IF Len(st) = 0 THEN 0 ELSE Len(Head(st)) + TotalDocs(Tail(st))

\* chromadb's collection.query(n_results=top_k): the top_k nearest documents,
\* nearest first.  The collections of the model keep that order.
collection_query(docs, top_k) == SubSeq(docs, 1, Min(top_k, Len(docs)))

\* _search_collection, and the loop bodies of search_context and
\* search_memories: the hits of collection c, in the store's order, with the
\* post-filter applied; relevance_score = 1 - distance.
search_collection(st, c, post_filter, top_k) ==
    LET got == collection_query(st[c], top_k)
        F[i \in 0..Len(got)] ==
            IF i = 0 THEN <<>>
            ELSE IF post_filter /\ ~got[i].keep THEN F[i - 1]
            ELSE Append(F[i - 1], [coll |-> c, pos |-> i,
                                   relevance_score |-> 1 - got[i].dist])
    IN  F[Len(got)]

\* results.extend(coll_results) over the candidates, in discovery order.
RECURSIVE extend_all(_, _, _, _)
extend_all(st, cands, post_filter, top_k) ==
    IF Len(cands) = 0 THEN <<>>
    ELSE search_collection(st, Head(cands), post_filter, top_k)
            \o extend_all(st, Tail(cands), post_filter, top_k)

\* hit h put behind every hit that does not score lower
InsertDesc(sorted, h) ==
    LET n == Cardinality({i \in 1..Len(sorted) :
                            sorted[i].relevance_score >= h.relevance_score})
    IN  SubSeq(sorted, 1, n) \o <<h>> \o SubSeq(sorted, n + 1, Len(sorted))

\* hit h put before every hit that does not score higher
InsertDescFront(sorted, h) ==
    LET n == Cardinality({i \in 1..Len(sorted) :
                            sorted[i].relevance_score > h.relevance_score})
    IN  SubSeq(sorted, 1, n) \o <<h>> \o SubSeq(sorted, n + 1, Len(sorted))

\* A variant of the sort that reverses an ascending sort, turning equal
\* scores around.
sort_by_relevance_reversing(results) ==
    LET F[i \in 0..Len(results)] ==
            IF i = 0 THEN <<>> ELSE InsertDescFront(F[i - 1], results[i])
    IN  F[Len(results)]

\* results.sort(key=lambda x: x.relevance_score, reverse=True): list.sort is
\* stable, also with reverse=True.
sort_by_relevance(results) ==
    LET F[i \in 0..Len(results)] ==
            IF i = 0 THEN <<>> ELSE InsertDesc(F[i - 1], results[i])
    IN  F[Len(results)]

\* A variant that cuts the list one hit late.
truncate_late(results, top_k) == SubSeq(results, 1, Min(top_k + 1, Len(results)))

\* results[:top_k], top_k >= 1
truncate(results, top_k) == SubSeq(results, 1, Min(top_k, Len(results)))

\* The list a fan-out search returns over the candidates cands of st.
fan_out(st, cands, post_filter, top_k) ==
    truncate(sort_by_relevance(extend_all(st, cands, post_filter, top_k)), top_k)

Indexes(st) == [i \in 1..Len(st) |-> i]

SearchInit ==
    /\ pc = "search"
    /\ store = <<>>
    /\ result = [op |-> "none"]
    /\ addr = None /\ name = None /\ parsed = None /\ sameName = {}
    /\ collections = {}
    /\ lookup = [op |-> "none"]
    /\ chroma = <<>> /\ made = <<>> /\ cache = <<>> /\ cres = [op |-> "none"]
    /\ matching = <<>> /\ contentLen = 0 /\ ctx = [op |-> "none"]
    /\ liveIndex = {} /\ syncRes = [op |-> "none"]
    /\ workers = <<>> /\ started = 0 /\ reads = 0 /\ plog = <<>>
    /\ redis = <<>> /\ calls = <<>> /\ dead = {} /\ acked = <<>> /\ sres = [op |-> "none"]
    /\ metaColl = <<>> /\ metaRes = [op |-> "none"]
    /\ aws = <<>> /\ fres = [op |-> "none"]
    /\ sessionColl = <<>> /\ longtermColl = <<>> /\ nextId = 0 /\ mres = [op |-> "none"]
    /\ stateDocs = <<>> /\ liveDocs = <<>> /\ cmp = [op |-> "none"]

\* One more (still empty) collection is discovered.
SearchAddCollection ==
    /\ Len(store) < MaxSearchColls
    /\ store' = Append(store, <<>>)
    /\ result' = [op |-> "none"]
    /\ UNCHANGED <<pc, nsVars, discVars, cacheVars, budgetVars, driftVars, memVars, fetchVars, metaVars, sessVars, stepVars, syncVars>>

\* add_documents: a document enters collection c; the store ranks it behind
\* the documents that are at most as far from the query.
SearchAddDocument ==
    \E c \in 1..Len(store), d \in Docs :
        /\ TotalDocs(store) < MaxHits
        /\ LET n == Cardinality({i \in 1..Len(store[c]) : store[c][i].dist <= d.dist})
           IN  store' = [store EXCEPT ![c] =
                            SubSeq(@, 1, n) \o <<d>> \o SubSeq(@, n + 1, Len(@))]
        /\ result' = [op |-> "none"]
        /\ UNCHANGED <<pc, nsVars, discVars, cacheVars, budgetVars, driftVars, memVars, fetchVars, metaVars, sessVars, stepVars, syncVars>>

\* A search over every candidate; down is the collection whose store query
\* raises (0: none).  No handler catches the exception, so the search raises.
\* A search leaves the store as it is: the searches of a state with a result
\* on record are those of the state before it, and are taken from there.
Search(op, cands, post_filter, top_k, down) ==
    /\ result.op = "none"
    /\ result' =
        IF down # 0
        THEN [op |-> op, top_k |-> top_k, post_filter |-> post_filter,
              down |-> down, status |-> "raised", hits |-> <<>>]
        ELSE [op |-> op, top_k |-> top_k, post_filter |-> post_filter,
              down |-> 0, status |-> "ok",
              hits |-> fan_out(store, cands, post_filter, top_k)]
    /\ UNCHANGED <<pc, store, nsVars, discVars, cacheVars, budgetVars, driftVars, memVars, fetchVars, metaVars, sessVars, stepVars, syncVars>>

\* TerraformIndexService.semantic_search over the discovered collections
SemanticSearch ==
    \E top_k \in 1..MaxTopK, post_filter \in BOOLEAN, down \in 0..Len(store) :
        Search("semantic_search", Indexes(store), post_filter, top_k, down)

\* ContextService.search_context over the discovered collections
SearchContext ==
    \E top_k \in 1..MaxTopK, post_filter \in BOOLEAN, down \in 0..Len(store) :
        Search("search_context", Indexes(store), post_filter, top_k, down)

\* MemoryService.search_memories over the session and longterm collections
SearchMemories ==
    \E top_k \in 1..MaxTopK, post_filter \in BOOLEAN, down \in 0..Len(store) :
        /\ Len(store) = 2
        /\ Search("search_memories", Indexes(store), post_filter, top_k, down)

\* The groups of unified_search the model follows; the memory group is
\* searched the same way by search_memories.
SearchGroups == {"terraform", "context"}

\* IndexGroupManager.unified_search: each group of index_groups is searched
\* on its own over its own collections with top_k_per_group, the others stay
\* empty; group_of says which group each collection belongs to.
UnifiedSearch ==
    \E top_k \in 1..MaxTopK, index_groups \in SUBSET SearchGroups,
       group_of \in [1..Len(store) -> SearchGroups] :
        LET of(g) == LET idx == {i \in 1..Len(store) : group_of[i] = g}
                         F[i \in 0..Len(store)] ==
                            IF i = 0 THEN <<>>
                            ELSE IF i \in idx THEN Append(F[i - 1], i) ELSE F[i - 1]
                     IN  F[Len(store)]
            found(g) == IF g \in index_groups
                        THEN fan_out(store, of(g), FALSE, top_k) ELSE <<>>
        IN  /\ result.op = "none"
            /\ result' = [op |-> "unified_search", top_k |-> top_k,
                          post_filter |-> FALSE, status |-> "ok", down |-> 0,
                          index_groups |-> index_groups, group_of |-> group_of,
                          terraform |-> found("terraform"),
                          context |-> found("context")]
            /\ UNCHANGED <<pc, store, nsVars, discVars, cacheVars, budgetVars, driftVars, memVars, fetchVars, metaVars, sessVars, stepVars, syncVars>>

SearchNext ==
    \/ SearchAddCollection
    \/ SearchAddDocument
    \/ SemanticSearch
    \/ SearchContext
    \/ SearchMemories
    \/ UnifiedSearch

SpecSearch == SearchInit /\ [][SearchNext]_vars

FanOutOps == {"semantic_search", "search_context", "search_memories"}

\* The lists the last request returned.
ReturnedLists ==
    IF result.op \in FanOutOps /\ result.status = "ok" THEN {result.hits}
    ELSE IF result.op = "unified_search" THEN {result.terraform, result.context}
    ELSE {}

\* hit a comes from an earlier collection than hit b or, in one collection,
\* from an earlier place of the store's result order
Before(a, b) == a.coll < b.coll \/ (a.coll = b.coll /\ a.pos < b.pos)

\* C5: a returned list is non-increasing in relevance_score, and hits of
\* equal score are in collection discovery order and, within a collection,
\* in the store's result order.
C5_MergeOrdering ==
    \A hits \in ReturnedLists :
        \A i, j \in 1..Len(hits) :
            i < j =>
                /\ hits[i].relevance_score >= hits[j].relevance_score
                /\ hits[i].relevance_score = hits[j].relevance_score
                        => Before(hits[i], hits[j])

\* Two hits of equal score from different collections were merged.
C5_Witness ==
    /\ result.op \in FanOutOps
    /\ result.status = "ok"
    /\ \E i, j \in 1..Len(result.hits) :
            /\ i < j
            /\ result.hits[i].relevance_score = result.hits[j].relevance_score
            /\ result.hits[i].coll # result.hits[j].coll
    /\ \E i, j \in 1..Len(result.hits) :
            result.hits[i].relevance_score > result.hits[j].relevance_score

\* The hits the store queries on the collections cs return (each query cut
\* at top_k) that pass the post-filter.
Surviving(cs, post_filter, top_k) ==
    {[coll |-> c, pos |-> i, relevance_score |-> 1 - store[c][i].dist] :
        <<c, i>> \in {x \in cs \X (1..MaxHits + 1) :
                        /\ x[2] <= Min(top_k, Len(store[x[1]]))
                        /\ post_filter => store[x[1]][x[2]].keep}}

\* hits is the top_k best of the surviving hits of the collections cs
TopKOf(hits, cs, post_filter, top_k) ==
    LET all == Surviving(cs, post_filter, top_k)
        got == {hits[i] : i \in 1..Len(hits)}
    IN  /\ got \subseteq all
        /\ Cardinality(got) = Len(hits)
        /\ Len(hits) = Min(top_k, Cardinality(all))
        /\ \A out \in all \ got : \A h \in got :
                out.relevance_score <= h.relevance_score

Others(down) ==
    LET F[i \in 0..Len(store)] ==
            IF i = 0 THEN <<>>
            ELSE IF i = down THEN F[i - 1] ELSE Append(F[i - 1], i)
    IN  F[Len(store)]

\* C7: when the store query on one candidate collection raises, the search
\* still returns, with the hits of the other collections.
C7_FailureIsolation ==
    (result.op \in FanOutOps /\ result.down # 0) =>
        /\ result.status = "ok"
        /\ result.hits = fan_out(store, Others(result.down),
                                 result.post_filter, result.top_k)

\* ------------------------------------------------------------------------
\* Collection handles: get_collection's cache, add, query, delete_collection
\* ------------------------------------------------------------------------

\* Service instances alive at once: the one of the application state and
\* the ones the request dependencies construct, all on one chromadb store.
MaxServices == 2

\* How often one collection name is created.
MaxCreates == 2

Services == 1..MaxServices

\* The collection names of the handle checks.
CacheNames == {"memory__session__u", "context__live__u__acc"}

\* MultiVectorStoreService.get_collection: the cached handle if there is
\* one, else the client's collection (created if asked for), which is then
\* cached; None (handle 0) when the client raises.
get_collection(svc, n, create_if_missing) ==
    IF cache[svc][n] # 0
    THEN [handle |-> cache[svc][n], chroma |-> chroma, made |-> made, cache |-> cache]
    ELSE IF chroma[n] # 0
    THEN [handle |-> chroma[n], chroma |-> chroma, made |-> made,
          cache |-> [cache EXCEPT ![svc][n] = chroma[n]]]
    ELSE IF create_if_missing
    THEN [handle |-> made[n] + 1,
          chroma |-> [chroma EXCEPT ![n] = made[n] + 1],
          made |-> [made EXCEPT ![n] = @ + 1],
          cache |-> [cache EXCEPT ![svc][n] = made[n] + 1]]
    ELSE [handle |-> 0, chroma |-> chroma, made |-> made, cache |-> cache]

\* What a call on a collection handle can do, given the client's state
\* after get_collection: it works on the live collection; on a collection
\* that is gone it raises; on a name that has been created anew, a handle
\* of the old collection raises or reaches the new one, by chromadb version.
HandleOutcomes(handle, live) ==
    IF handle = live THEN {"ok"}
    ELSE IF live = 0 THEN {"raised"}
    ELSE {"ok", "raised"}

CacheInit ==
    /\ pc = "cache"
    /\ chroma = [n \in CacheNames |-> 0]
    /\ made = [n \in CacheNames |-> 0]
    /\ cache = [svc \in Services |-> [n \in CacheNames |-> 0]]
    /\ cres = [op |-> "none"]
    /\ matching = <<>> /\ contentLen = 0 /\ ctx = [op |-> "none"]
    /\ liveIndex = {} /\ syncRes = [op |-> "none"]
    /\ workers = <<>> /\ started = 0 /\ reads = 0 /\ plog = <<>>
    /\ redis = <<>> /\ calls = <<>> /\ dead = {} /\ acked = <<>> /\ sres = [op |-> "none"]
    /\ metaColl = <<>> /\ metaRes = [op |-> "none"]
    /\ aws = <<>> /\ fres = [op |-> "none"]
    /\ sessionColl = <<>> /\ longtermColl = <<>> /\ nextId = 0 /\ mres = [op |-> "none"]
    /\ stateDocs = <<>> /\ liveDocs = <<>> /\ cmp = [op |-> "none"]
    /\ addr = None /\ name = None /\ parsed = None /\ sameName = {}
    /\ collections = {}
    /\ lookup = [op |-> "none"]
    /\ store = <<>>
    /\ result = [op |-> "none"]

\* add_documents(collection_name, ...)
CacheAddDocuments ==
    \E svc \in Services, n \in CacheNames :
        LET g == get_collection(svc, n, TRUE)
        IN  /\ g.made[n] <= MaxCreates
            /\ \E out \in HandleOutcomes(g.handle, g.chroma[n]) :
                cres' = [op |-> "add_documents", svc |-> svc, n |-> n,
                         existed |-> chroma[n] # 0, outcome |-> out]
            /\ chroma' = g.chroma
            /\ made' = g.made
            /\ cache' = g.cache
            /\ UNCHANGED <<pc, nsVars, discVars, searchVars, budgetVars, driftVars, memVars, fetchVars, metaVars, sessVars, stepVars, syncVars>>

\* query(collection_name, ...): the empty result when get_collection gives
\* no handle, else collection.query on the handle, uncaught.
CacheQuery ==
    \E svc \in Services, n \in CacheNames :
        LET g == get_collection(svc, n, FALSE)
        IN  /\ \E out \in (IF g.handle = 0 THEN {"empty"}
                           ELSE HandleOutcomes(g.handle, g.chroma[n])) :
                cres' = [op |-> "query", svc |-> svc, n |-> n,
                         existed |-> chroma[n] # 0, outcome |-> out]
            /\ cache' = g.cache
            /\ UNCHANGED <<chroma, made, pc, nsVars, discVars, searchVars, budgetVars, driftVars, memVars, fetchVars, metaVars, sessVars, stepVars, syncVars>>

\* delete_collection(collection_name): the client's collection is deleted
\* and this instance's cache entry dropped; False when the client raises.
CacheDeleteCollection ==
    \E svc \in Services, n \in CacheNames :
        /\ IF chroma[n] # 0
           THEN /\ chroma' = [chroma EXCEPT ![n] = 0]
                /\ cache' = [cache EXCEPT ![svc][n] = 0]
                /\ cres' = [op |-> "delete_collection", svc |-> svc, n |-> n,
                            existed |-> TRUE, outcome |-> "true"]
           ELSE /\ UNCHANGED <<chroma, cache, driftVars, memVars, fetchVars, metaVars, sessVars, stepVars, syncVars>>
                /\ cres' = [op |-> "delete_collection", svc |-> svc, n |-> n,
                            existed |-> FALSE, outcome |-> "false"]
        /\ UNCHANGED <<made, pc, nsVars, discVars, searchVars, budgetVars, driftVars, memVars, fetchVars, metaVars, sessVars, stepVars, syncVars>>

\* A request ends and the next one constructs its own service instance,
\* with an empty cache.
CacheNewService ==
    \E svc \in Services :
        /\ cache' = [cache EXCEPT ![svc] = [n \in CacheNames |-> 0]]
        /\ cres' = [op |-> "none"]
        /\ UNCHANGED <<chroma, made, pc, nsVars, discVars, searchVars, budgetVars, driftVars, memVars, fetchVars, metaVars, sessVars, stepVars, syncVars>>

CacheNext ==
    \/ CacheAddDocuments
    \/ CacheQuery
    \/ CacheDeleteCollection
    \/ CacheNewService

SpecCache == CacheInit /\ [][CacheNext]_vars

\* C8: query on a collection that does not exist at the time of the call
\* returns the empty result and raises no error, also when the collection
\* was deleted after a handle to it had been cached.
C8_QueryMissing ==
    (cres.op = "query" /\ ~cres.existed) => cres.outcome = "empty"

\* ------------------------------------------------------------------------
\* Agent context assembly (IndexGroupManager.build_agent_context)
\* ------------------------------------------------------------------------

\* Longest include_groups list a request carries.
MaxIncludeLen == 2

\* IndexGroup, the members of include_groups.
IndexGroups == {"terraform", "sessions", "memory", "context"}

\* The keys of sources, one per block, in the order the blocks are built.
Blocks == <<"sessions", "memories", "decisions", "terraform", "context">>

BlockSet == {Blocks[i] : i \in 1..Len(Blocks)}

\* How many matching items a store can hold: none, one, more than any
\* helper asks for.
HitCounts == {0, 1, 12}

\* Lengths of a stored item's text fields: under and over every cut.
ContentLens == {40, 400}

\* max_context_tokens: the smallest value a request may carry, and the default.
TokenChoices == {500, 4000}

\* include_groups: lists, so order and repetition are the request's.
RECURSIVE ListsUpTo(_, _)
ListsUpTo(S, n) ==
    IF n = 0 THEN {<<>>}
    ELSE LET shorter == ListsUpTo(S, n - 1)
         IN  shorter \cup {Append(l, x) : l \in shorter, x \in S}

IncludeLists == ListsUpTo(IndexGroups, MaxIncludeLen)

Contains(list, x) == \E i \in 1..Len(list) : list[i] = x

\* Characters per token of the estimate.
CharsPerToken == 4

\* session.messages[-10:]
SessionTail == 10

\* top_k of the helpers' searches.
MemoryTopK == 5
DecisionTopK == 3
TerraformTopK == 5
CloudTopK == 5

char_budget(max_context_tokens) == max_context_tokens * CharsPerToken

\* chars_per_group = char_budget // len(include_groups) if include_groups else 0
chars_per_group(max_context_tokens, include_groups) ==
    IF Len(include_groups) # 0
    THEN char_budget(max_context_tokens) \div Len(include_groups)
    ELSE 0

\* len("\n".join(formatted)) for n lines of the same length.
JoinedLen(n, line) == IF n = 0 THEN 0 ELSE n * line + (n - 1)

\* len(text[:max_chars]); max_chars is never negative here.
SliceLen(len, max_chars) == Min(len, max_chars)

\* f"[{msg.role}]: {msg.content[:200]}..." with the role "user".
SessionLine(c) == 1 + 4 + 3 + Min(c, 200) + 3

\* f"- {content[:300]}... (relevance: {score:.2f})", the score in 0.00..1.00.
MemoryLine(c) == 2 + Min(c, 300) + 16 + 4 + 1

\* "- Decision: {type}\n  Reasoning: {reasoning[:200]}...\n  Outcome:
\* {outcome[:100]}...", the type a word of seven characters.
DecisionLine(c) == 12 + 7 + 1 + 13 + Min(c, 200) + 3 + 1 + 11 + Min(c, 100) + 3

\* "- File: {file_path}\n  Category: {category}\n  Content: {content[:200]}...",
\* the path and the category words of seven characters.
TerraformLine(c) == 8 + 7 + 1 + 12 + 7 + 1 + 11 + Min(c, 200) + 3

\* "- Resource: {type}/{id}\n  Region: {region}\n  Source: {source}" for
\* ec2/i-1, us-east-1, live_api: no field of it is cut.
CloudLine == 12 + 3 + 1 + 3 + 1 + 10 + 9 + 1 + 10 + 8

\* The helpers: what the block's search returns, its joined text, the text
\* cut to max_chars. found is the helper's result being truthy.
get_session_context(n_messages, c, max_chars) ==
    LET n == Min(n_messages, SessionTail)
        raw == JoinedLen(n, SessionLine(c))
    IN  [found |-> n_messages > 0 /\ SliceLen(raw, max_chars) > 0,
         raw_len |-> raw, text_len |-> SliceLen(raw, max_chars), items |-> n,
         count |-> 1]

\* Mutation of get_search_context: count is the number of hits whose line
\* is whole in the cut text.
get_search_context_counting_shown(n_matching, top_k, line, max_chars) ==
    LET n == Min(n_matching, top_k)
        raw == JoinedLen(n, line)
    IN  [found |-> n > 0,
         raw_len |-> raw, text_len |-> SliceLen(raw, max_chars), items |-> n,
         count |-> Min(n, (SliceLen(raw, max_chars) + 1) \div (line + 1))]

\* results = search(..., top_k); text = "\n".join(formatted)[:max_chars];
\* count = len(results)
get_search_context(n_matching, top_k, line, max_chars) ==
    LET n == Min(n_matching, top_k)
        raw == JoinedLen(n, line)
    IN  [found |-> n > 0,
         raw_len |-> raw, text_len |-> SliceLen(raw, max_chars), items |-> n,
         count |-> n]

get_memory_context(n_matching, c, max_chars) ==
    get_search_context(n_matching, MemoryTopK, MemoryLine(c), max_chars)

get_decision_context(n_matching, c, max_chars) ==
    get_search_context(n_matching, DecisionTopK, DecisionLine(c), max_chars)

get_terraform_context(n_matching, c, max_chars) ==
    get_search_context(n_matching, TerraformTopK, TerraformLine(c), max_chars)

get_cloud_context(n_matching, c, max_chars) ==
    get_search_context(n_matching, CloudTopK, CloudLine, max_chars)

\* len of the block's heading, "## Session Context\n" and so on.
HeaderLen(block) ==
    CASE block = "sessions" -> 19
      [] block = "memories" -> 21
      [] block = "decisions" -> 18
      [] block = "terraform" -> 21
      [] block = "context" -> 17

\* One context_parts.append and the sources entry that goes with it.
PartOf(block, included, max_chars, helper) ==
    IF included /\ helper.found
    THEN <<[block |-> block, budget |-> max_chars, raw_len |-> helper.raw_len,
            text_len |-> helper.text_len, items |-> helper.items,
            count |-> helper.count]>>
    ELSE <<>>

RECURSIVE ContextLen(_)
ContextLen(parts) ==
    IF parts = <<>> THEN 0
    ELSE HeaderLen(parts[1].block) + parts[1].text_len
         + (IF Len(parts) > 1 THEN 2 ELSE 0) + ContextLen(Tail(parts))

BudgetInit ==
    /\ pc = "context"
    /\ matching = [b \in BlockSet |-> 0]
    /\ contentLen \in ContentLens
    /\ ctx = [op |-> "none"]
    /\ liveIndex = {} /\ syncRes = [op |-> "none"]
    /\ workers = <<>> /\ started = 0 /\ reads = 0 /\ plog = <<>>
    /\ redis = <<>> /\ calls = <<>> /\ dead = {} /\ acked = <<>> /\ sres = [op |-> "none"]
    /\ metaColl = <<>> /\ metaRes = [op |-> "none"]
    /\ aws = <<>> /\ fres = [op |-> "none"]
    /\ sessionColl = <<>> /\ longtermColl = <<>> /\ nextId = 0 /\ mres = [op |-> "none"]
    /\ stateDocs = <<>> /\ liveDocs = <<>> /\ cmp = [op |-> "none"]
    /\ addr = None /\ name = None /\ parsed = None /\ sameName = {}
    /\ collections = {}
    /\ lookup = [op |-> "none"]
    /\ store = <<>>
    /\ result = [op |-> "none"]
    /\ chroma = <<>> /\ made = <<>> /\ cache = <<>> /\ cres = [op |-> "none"]

\* A store of the block gains items that match the query.
BudgetStore(block) ==
    /\ ctx.op = "none"
    /\ \E n \in HitCounts :
        /\ n > matching[block]
        /\ matching' = [matching EXCEPT ![block] = n]
    /\ UNCHANGED <<contentLen, ctx, pc, nsVars, discVars, searchVars, cacheVars, driftVars, memVars, fetchVars, metaVars, sessVars, stepVars, syncVars>>

\* SessionService.add_message
BudgetAddMessage == BudgetStore("sessions")

\* MemoryService.store_memory
BudgetStoreMemory == BudgetStore("memories")

\* MemoryService.store_decision
BudgetStoreDecision == BudgetStore("decisions")

\* TerraformIndexService.upload_terraform_files
BudgetUploadTerraform == BudgetStore("terraform")

\* ContextService.upload_state_file
BudgetUploadState == BudgetStore("context")

\* The blocks one group of include_groups stands for, as build_agent_context
\* renders them: memory stands for the memories and the decisions block.
GroupParts(group, per_group, m, c) ==
    CASE group = "sessions" ->
            PartOf("sessions", TRUE, per_group,
                   get_session_context(m["sessions"], c, per_group))
      [] group = "memory" ->
            PartOf("memories", TRUE, per_group,
                   get_memory_context(m["memories"], c, per_group))
            \o PartOf("decisions", TRUE, per_group \div 2,
                   get_decision_context(m["decisions"], c, per_group \div 2))
      [] group = "terraform" ->
            PartOf("terraform", TRUE, per_group,
                   get_terraform_context(m["terraform"], c, per_group))
      [] group = "context" ->
            PartOf("context", TRUE, per_group,
                   get_cloud_context(m["context"], c, per_group))

\* Mutation of context_parts: the blocks appended while iterating
\* include_groups, in the order of the request.
RECURSIVE context_parts_in_request_order(_, _, _, _)
context_parts_in_request_order(include_groups, per_group, m, c) ==
    IF include_groups = <<>> THEN <<>>
    ELSE GroupParts(Head(include_groups), per_group, m, c)
         \o context_parts_in_request_order(Tail(include_groups), per_group, m, c)

\* context_parts as the four `if IndexGroup.X in include_groups` branches
\* append to it, one after the other.
context_parts(include_groups, per_group, m, c) ==
    PartOf("sessions", Contains(include_groups, "sessions"), per_group,
           get_session_context(m["sessions"], c, per_group))
    \o PartOf("memories", Contains(include_groups, "memory"), per_group,
           get_memory_context(m["memories"], c, per_group))
    \o PartOf("decisions", Contains(include_groups, "memory"), per_group \div 2,
           get_decision_context(m["decisions"], c, per_group \div 2))
    \o PartOf("terraform", Contains(include_groups, "terraform"), per_group,
           get_terraform_context(m["terraform"], c, per_group))
    \o PartOf("context", Contains(include_groups, "context"), per_group,
           get_cloud_context(m["context"], c, per_group))

\* build_agent_context(user_id, session_id, query, include_groups,
\* max_context_tokens, account_id)
BuildAgentContext ==
    \E include_groups \in IncludeLists, max_context_tokens \in TokenChoices :
        LET per_group == chars_per_group(max_context_tokens, include_groups)
            parts == context_parts(include_groups, per_group, matching,
                                   contentLen)
        IN  /\ ctx.op = "none"
            /\ ctx' = [op |-> "build_agent_context",
                       include_groups |-> include_groups,
                       max_context_tokens |-> max_context_tokens,
                       parts |-> parts,
                       sources |-> {[key |-> parts[i].block,
                                     count |-> parts[i].count] :
                                        i \in 1..Len(parts)},
                       context_len |-> ContextLen(parts)]
            /\ UNCHANGED <<matching, contentLen, pc, nsVars, discVars,
                           searchVars, cacheVars, driftVars, memVars, fetchVars, metaVars, sessVars, stepVars, syncVars>>

BudgetNext ==
    \/ BudgetAddMessage
    \/ BudgetStoreMemory
    \/ BudgetStoreDecision
    \/ BudgetUploadTerraform
    \/ BudgetUploadState
    \/ BuildAgentContext

SpecBudget == BudgetInit /\ [][BudgetNext]_vars

Built == ctx.op = "build_agent_context"

RECURSIVE SumBudgets(_)
SumBudgets(parts) ==
    IF parts = <<>> THEN 0 ELSE parts[1].budget + SumBudgets(Tail(parts))

\* C9: the character budgets given to the rendered blocks of one
\* build_agent_context call sum to at most max_context_tokens * 4, and each
\* rendered block's text is no longer than the budget it was given.
C9_BudgetConservation ==
    Built =>
        /\ SumBudgets(ctx.parts) <= ctx.max_context_tokens * 4
        /\ \A i \in 1..Len(ctx.parts) :
                ctx.parts[i].text_len <= ctx.parts[i].budget

\* The share of one group: floor(max_context_tokens * 4 / len(include_groups)).
EqualShare == (ctx.max_context_tokens * 4) \div Len(ctx.include_groups)

\* C10: every rendered block is cut to the same budget,
\* floor(max_context_tokens * 4 / number of groups), whatever it holds; no
\* block gets a larger or a smaller share than another.
C10_EqualSplit ==
    Built =>
        \A i \in 1..Len(ctx.parts) :
            /\ ctx.parts[i].budget = EqualShare
            /\ ctx.parts[i].text_len = Min(ctx.parts[i].raw_len, EqualShare)

\* The place of a block in the order the context is composed in.
RankInCode(block) ==
    CASE block = "sessions" -> 1
      [] block = "memories" -> 2
      [] block = "decisions" -> 3
      [] block = "terraform" -> 4
      [] block = "context" -> 5

\* The place of a block in the order session, memories, decisions, cloud
\* context, terraform.
RankCloudFirst(block) ==
    CASE block = "sessions" -> 1
      [] block = "memories" -> 2
      [] block = "decisions" -> 3
      [] block = "context" -> 4
      [] block = "terraform" -> 5

\* C11: the blocks of the context appear in the order session context,
\* memories, decisions, cloud context, terraform, whatever the order of
\* include_groups.
C11_GroupOrder ==
    Built =>
        \A i, j \in 1..Len(ctx.parts) :
            i < j => RankCloudFirst(ctx.parts[i].block)
                        < RankCloudFirst(ctx.parts[j].block)

\* C11, amended: the blocks of the context appear in the order session
\* context, memories, decisions, terraform, cloud context, whatever the
\* order of include_groups.
C11_GroupOrderTerraformFirst ==
    Built =>
        \A i, j \in 1..Len(ctx.parts) :
            i < j => RankInCode(ctx.parts[i].block)
                        < RankInCode(ctx.parts[j].block)

\* A context was built from a request that names the cloud context before
\* terraform, and both blocks were rendered.
C11_Witness ==
    /\ Built
    /\ ctx.include_groups = <<"context", "terraform">>
    /\ \E i, j \in 1..Len(ctx.parts) :
        /\ ctx.parts[i].block = "terraform"
        /\ ctx.parts[j].block = "context"

\* The sources entries under the key of a block.
SourcesOf(block) == {e \in ctx.sources : e.key = block}

\* C12: every block of the context has one sources entry, whose count is
\* the number of items the block was rendered from, before any cut, and
\* sources has no entry for a group without a block.
C12_SourceAccounting ==
    Built =>
        /\ \A i \in 1..Len(ctx.parts) :
                SourcesOf(ctx.parts[i].block)
                    = {[key |-> ctx.parts[i].block, count |-> ctx.parts[i].items]}
        /\ \A e \in ctx.sources :
                \E i \in 1..Len(ctx.parts) : ctx.parts[i].block = e.key

\* The number of hits the search behind a block returns.
SearchReturns(block) ==
    Min(matching[block],
        CASE block = "memories" -> MemoryTopK
          [] block = "decisions" -> DecisionTopK
          [] block = "terraform" -> TerraformTopK
          [] block = "context" -> CloudTopK)

\* C12, amended: every block of memories, decisions, terraform and cloud
\* context has one sources entry, whose count is the number of hits its
\* search returned, before any cut; the session block has the count 1,
\* however many messages it was rendered from; sources has no entry for a
\* group without a block.
C12_SourceAccountingOneSession ==
    Built =>
        /\ \A i \in 1..Len(ctx.parts) :
            LET p == ctx.parts[i]
            IN  SourcesOf(p.block)
                    = {[key |-> p.block,
                        count |-> IF p.block = "sessions" THEN 1
                                  ELSE SearchReturns(p.block)]}
        /\ \A e \in ctx.sources :
                \E i \in 1..Len(ctx.parts) : ctx.parts[i].block = e.key

\* A context was built with a session block of several messages and a block
\* of several hits that the cut left only a part of, and a requested group
\* gave no block.
C12_Witness ==
    /\ Built
    /\ \E i, j \in 1..Len(ctx.parts) :
        /\ ctx.parts[i].block = "sessions"
        /\ ctx.parts[i].items > 1
        /\ ctx.parts[j].block # "sessions"
        /\ ctx.parts[j].items > 1
        /\ ctx.parts[j].text_len < ctx.parts[j].raw_len
    /\ Contains(ctx.include_groups, "memory")
    /\ SourcesOf("decisions") = {}

\* ------------------------------------------------------------------------
\* Drift detection (ContextService.compare_state_vs_live)
\* ------------------------------------------------------------------------

\* Most records an inventory holds.
MaxInventory == 2

\* resource_id values.
ResourceIds == {<<"i-1">>, <<"i-2">>}

\* state_data maps: empty, a key with a value, the key with null, the key
\* with another value next to a second key.
StateDatas ==
    { <<>>,
      [k \in {"type"} |-> <<"t2.micro">>],
      [k \in {"type"} |-> None],
      [k \in {"type", "ami"} |-> IF k = "type" THEN <<"t2.large">> ELSE None] }

\* A CloudContext, as far as the comparison reads it.
ResourceRecords == [resource_id : ResourceIds, state_data : StateDatas]

\* The keys of {c.resource.resource_id: c for c in contexts}, in the order
\* a dict keeps them: first insertion.
RECURSIVE dict_keys(_)
dict_keys(contexts) ==
    IF contexts = <<>> THEN <<>>
    ELSE LET front == dict_keys(SubSeq(contexts, 1, Len(contexts) - 1))
             rid == contexts[Len(contexts)].resource_id
         IN  IF \E i \in 1..Len(front) : front[i] = rid THEN front
             ELSE Append(front, rid)

\* {c.resource.resource_id: c for c in contexts}[rid]: the last record of the id.
dict_value(contexts, rid) ==
    LET last == CHOOSE i \in 1..Len(contexts) :
                    /\ contexts[i].resource_id = rid
                    /\ \A j \in (i + 1)..Len(contexts) : contexts[j].resource_id # rid
    IN  contexts[last]

\* `if resource_id and rid != resource_id: continue`
Skipped(resource_id, rid) == Truthy(resource_id) /\ rid # resource_id

\* dict.get(key): None for a key the map lacks.
dict_get(data, key) == IF key \in DOMAIN data THEN data[key] ELSE None

\* diffs of one resource: an entry per key of the union on which the gets differ.
key_diffs(state_data, live_data) ==
    {[key |-> key, state_value |-> dict_get(state_data, key),
      live_value |-> dict_get(live_data, key)] :
        key \in {k \in (DOMAIN state_data) \cup (DOMAIN live_data) :
                    dict_get(state_data, k) # dict_get(live_data, k)}}

\* Mutation of drift_flag: the resources only in live are not looked at.
drift_flag_without_live(state_only, live_only, differences) ==
    Len(state_only) > 0 \/ Len(differences) > 0

\* len(state_only) > 0 or len(live_only) > 0 or len(differences) > 0
drift_flag(state_only, live_only, differences) ==
    Len(state_only) > 0 \/ Len(live_only) > 0 \/ Len(differences) > 0

\* The ids of a record list.
IdsOf(contexts) == {contexts[i].resource_id : i \in 1..Len(contexts)}

\* The ids of keys, in order, that pass the scope and are in keep.
RECURSIVE ScopedKeys(_, _, _)
ScopedKeys(keys, resource_id, keep) ==
    IF keys = <<>> THEN <<>>
    ELSE LET rest == ScopedKeys(Tail(keys), resource_id, keep)
         IN  IF ~Skipped(resource_id, Head(keys)) /\ Head(keys) \in keep
             THEN <<Head(keys)>> \o rest ELSE rest

\* Mutation of the first loop: an id of both inventories whose records
\* differ is counted as matched too.
count_matched_all_common(state_resources, live_contexts, resource_id) ==
    Len(ScopedKeys(dict_keys(state_resources), resource_id, IdsOf(live_contexts)))

\* Mutation of the first loop: the resource_id scope is not applied to the
\* resources that match.
count_matched_unscoped(state_resources, live_contexts, resource_id) ==
    LET same == {rid \in IdsOf(state_resources) \cap IdsOf(live_contexts) :
                    key_diffs(dict_value(state_resources, rid).state_data,
                              dict_value(live_contexts, rid).state_data) = {}}
    IN  Len(ScopedKeys(dict_keys(state_resources), None, same))

\* matched: the ids of both inventories whose records give no diffs.
count_matched(state_resources, live_contexts, resource_id) ==
    LET same == {rid \in IdsOf(state_resources) \cap IdsOf(live_contexts) :
                    key_diffs(dict_value(state_resources, rid).state_data,
                              dict_value(live_contexts, rid).state_data) = {}}
    IN  Len(ScopedKeys(dict_keys(state_resources), resource_id, same))

\* live_only: the ids of live_by_id that state_by_id lacks.
live_only_ids(state_resources, live_contexts, resource_id) ==
    ScopedKeys(dict_keys(live_contexts), resource_id,
               IdsOf(live_contexts) \ IdsOf(state_resources))

\* The loops over state_by_id and live_by_id and the reply.
compare(state_resources, live_contexts, resource_id) ==
    LET skeys == dict_keys(state_resources)
        differs == {rid \in IdsOf(state_resources) \cap IdsOf(live_contexts) :
                        key_diffs(dict_value(state_resources, rid).state_data,
                                  dict_value(live_contexts, rid).state_data) # {}}
        state_only == ScopedKeys(skeys, resource_id,
                                 IdsOf(state_resources) \ IdsOf(live_contexts))
        differing == ScopedKeys(skeys, resource_id, differs)
        differences ==
            [i \in 1..Len(differing) |->
                [resource_id |-> differing[i],
                 state_value |-> dict_value(state_resources, differing[i]).state_data,
                 live_value |-> dict_value(live_contexts, differing[i]).state_data,
                 differences |->
                    key_diffs(dict_value(state_resources, differing[i]).state_data,
                              dict_value(live_contexts, differing[i]).state_data)]]
        live_only == live_only_ids(state_resources, live_contexts, resource_id)
    IN  [op |-> "compare_state_vs_live",
         resource_id |-> resource_id,
         state_only |-> state_only,
         live_only |-> live_only,
         differences |-> differences,
         matched |-> count_matched(state_resources, live_contexts, resource_id),
         drift_detected |-> drift_flag(state_only, live_only, differences)]

DriftInit ==
    /\ pc = "drift"
    /\ stateDocs = <<>>
    /\ liveDocs = <<>>
    /\ cmp = [op |-> "none"]
    /\ addr = None /\ name = None /\ parsed = None /\ sameName = {}
    /\ collections = {}
    /\ lookup = [op |-> "none"]
    /\ store = <<>>
    /\ result = [op |-> "none"]
    /\ chroma = <<>> /\ made = <<>> /\ cache = <<>> /\ cres = [op |-> "none"]
    /\ matching = <<>> /\ contentLen = 0 /\ ctx = [op |-> "none"]
    /\ liveIndex = {} /\ syncRes = [op |-> "none"]
    /\ workers = <<>> /\ started = 0 /\ reads = 0 /\ plog = <<>>
    /\ redis = <<>> /\ calls = <<>> /\ dead = {} /\ acked = <<>> /\ sres = [op |-> "none"]
    /\ metaColl = <<>> /\ metaRes = [op |-> "none"]
    /\ aws = <<>> /\ fres = [op |-> "none"]
    /\ sessionColl = <<>> /\ longtermColl = <<>> /\ nextId = 0 /\ mres = [op |-> "none"]

\* upload_state_file: every resource of the file is added under a new
\* context id, next to whatever the collection holds for its resource id.
DriftUploadState ==
    \E r \in ResourceRecords :
        /\ cmp.op = "none"
        /\ Len(stateDocs) < MaxInventory
        /\ stateDocs' = Append(stateDocs, r)
        /\ UNCHANGED <<liveDocs, cmp, pc, nsVars, discVars, searchVars,
                       cacheVars, budgetVars, memVars, fetchVars, metaVars, sessVars, stepVars, syncVars>>

\* The live inventory gains a record: a resource the fetcher returns, or
\* one sync_live_state has added to the live collection.
DriftObserveLive ==
    \E r \in ResourceRecords :
        /\ cmp.op = "none"
        /\ Len(liveDocs) < MaxInventory
        /\ liveDocs' = Append(liveDocs, r)
        /\ UNCHANGED <<stateDocs, cmp, pc, nsVars, discVars, searchVars,
                       cacheVars, budgetVars, memVars, fetchVars, metaVars, sessVars, stepVars, syncVars>>

\* compare_state_vs_live(user_id, account_id, region, resource_type,
\* resource_id, ...)
CompareStateVsLive ==
    \E resource_id \in ResourceIds \cup {None} :
        /\ cmp.op = "none"
        /\ cmp' = compare(stateDocs, liveDocs, resource_id)
        /\ UNCHANGED <<stateDocs, liveDocs, pc, nsVars, discVars, searchVars,
                       cacheVars, budgetVars, memVars, fetchVars, metaVars, sessVars, stepVars, syncVars>>

DriftNext ==
    \/ DriftUploadState
    \/ DriftObserveLive
    \/ CompareStateVsLive

SpecDrift == DriftInit /\ [][DriftNext]_vars

Compared == cmp.op = "compare_state_vs_live"

\* C13: drift_detected is true exactly when state_only, live_only or
\* differences is not empty.
C13_DriftFlag ==
    Compared =>
        (cmp.drift_detected
            <=> (cmp.state_only # <<>> \/ cmp.live_only # <<>>
                 \/ cmp.differences # <<>>))

\* A comparison matched a resource and found another only in live, nothing
\* else, and flagged drift.
C13_Witness ==
    /\ Compared
    /\ cmp.state_only = <<>>
    /\ cmp.differences = <<>>
    /\ cmp.live_only # <<>>
    /\ cmp.matched > 0
    /\ cmp.drift_detected

\* An inventory as a set of records.
RecordSet(contexts) == {contexts[i] : i \in 1..Len(contexts)}

\* C14: when the declared and the observed inventory are the same set of
\* records, drift_detected is false and matched is the number of declared
\* records.
C14_IdenticalInventories ==
    (Compared /\ RecordSet(stateDocs) = RecordSet(liveDocs)) =>
        /\ ~cmp.drift_detected
        /\ cmp.matched = Cardinality(RecordSet(stateDocs))

\* No two different records of the inventory have the same resource id.
UniqueIds(contexts) ==
    \A r1, r2 \in RecordSet(contexts) : r1.resource_id = r2.resource_id => r1 = r2

\* C14, amended: when the declared and the observed inventory are the same
\* set of records, no two of them with the same resource id, drift_detected
\* is false and matched is the number of declared records within the
\* resource_id scope, all of them when no resource_id is given.
C14_IdenticalInventoriesInScope ==
    (Compared /\ RecordSet(stateDocs) = RecordSet(liveDocs) /\ UniqueIds(stateDocs)) =>
        /\ ~cmp.drift_detected
        /\ cmp.matched
            = Cardinality({r \in RecordSet(stateDocs) :
                                ~Skipped(cmp.resource_id, r.resource_id)})

\* Two records of different ids, the same in both inventories and recorded
\* in different orders, were compared in the scope of one resource id.
C14_Witness ==
    /\ Compared
    /\ RecordSet(stateDocs) = RecordSet(liveDocs)
    /\ UniqueIds(stateDocs)
    /\ Cardinality(RecordSet(stateDocs)) = 2
    /\ stateDocs # liveDocs
    /\ cmp.resource_id # None
    /\ cmp.matched = 1

\* The ids of a list, as a set, and whether the list names each id once.
Listed(ids) == {ids[i] : i \in 1..Len(ids)}
NoRepeat(ids) == Cardinality(Listed(ids)) = Len(ids)

\* The ids of an inventory within the resource_id scope of the comparison.
InScope(contexts) ==
    {rid \in IdsOf(contexts) : ~Skipped(cmp.resource_id, rid)}

DifferenceIds == [i \in 1..Len(cmp.differences) |-> cmp.differences[i].resource_id]

\* C15: state_only is exactly the declared ids in scope that observed
\* lacks, live_only exactly the observed ids in scope that declared lacks,
\* each id once; every id in scope that both hold is either one entry of
\* differences or one unit of matched.
C15_DriftPartition ==
    Compared =>
        /\ NoRepeat(cmp.state_only)
        /\ Listed(cmp.state_only) = InScope(stateDocs) \ IdsOf(liveDocs)
        /\ NoRepeat(cmp.live_only)
        /\ Listed(cmp.live_only) = InScope(liveDocs) \ IdsOf(stateDocs)
        /\ NoRepeat(DifferenceIds)
        /\ Listed(DifferenceIds) \subseteq InScope(stateDocs) \cap IdsOf(liveDocs)
        /\ cmp.matched
            = Cardinality((InScope(stateDocs) \cap IdsOf(liveDocs))
                            \ Listed(DifferenceIds))

\* A comparison in the scope of one resource id reported that id as a
\* difference and left out an id that only the state holds.
C15_Witness ==
    /\ Compared
    /\ cmp.resource_id # None
    /\ Len(cmp.differences) = 1
    /\ cmp.matched = 0
    /\ cmp.state_only = <<>>
    /\ IdsOf(stateDocs) \ IdsOf(liveDocs) # {}

\* C16: for a resource id of both inventories there is a diff entry for
\* every key of the union of the two attribute maps on which the maps
\* differ, a key that one map has and the other lacks always being a
\* difference, also when its value is null; the resource is matched only
\* when there is no such key.
C16_AttributeDiff ==
    Compared =>
        \A rid \in InScope(stateDocs) \cap IdsOf(liveDocs) :
            LET s == dict_value(stateDocs, rid).state_data
                l == dict_value(liveDocs, rid).state_data
                differing == {k \in (DOMAIN s) \cup (DOMAIN l) :
                                \/ k \notin DOMAIN s
                                \/ k \notin DOMAIN l
                                \/ s[k] # l[k]}
                entries == {cmp.differences[i] : i \in 1..Len(cmp.differences)}
                mine == {e \in entries : e.resource_id = rid}
            IN  IF differing = {} THEN mine = {}
                ELSE /\ Cardinality(mine) = 1
                     /\ \A e \in mine :
                            {d.key : d \in e.differences} = differing

\* ------------------------------------------------------------------------
\* Memory lifecycle (MemoryService)
\* ------------------------------------------------------------------------

\* Most memories store_memory creates.
MaxMemories == 2

\* limit of get_session_memories, as cleanup_session_memories calls it: 50
\* in the source, scaled to the size of the collections checked here.
SessionMemoriesLimit == 1

SessionIds == {"s1", "s2"}

\* importance_score and importance_threshold, in tenths.
Importances == {6, 7}
Thresholds == {7}

Contents == {"note", "plan"}

\* MemoryType, without decision.
MemoryTypes == {"session", "longterm"}

\* None, for an Optional[MemoryEntry] and for an Optional[MemoryType].
NoMemory == [memory_id |-> 0]
NoType == "None"

\* A collection without the ids of gone.
Without(coll, gone) == [i \in (DOMAIN coll) \ gone |-> coll[i]]

\* A collection after collection.add of records, a function from ids.
WithAll(coll, records) ==
    [i \in (DOMAIN coll) \cup (DOMAIN records) |->
        IF i \in DOMAIN records THEN records[i] ELSE coll[i]]

\* get_memory(user_id, memory_id, memory_type): the first collection of
\* types_to_check that holds the id.
get_memory(session, longterm, memory_id, memory_type) ==
    IF memory_type \in {NoType, "session"} /\ memory_id \in DOMAIN session
    THEN session[memory_id]
    ELSE IF memory_type \in {NoType, "longterm"} /\ memory_id \in DOMAIN longterm
    THEN longterm[memory_id]
    ELSE NoMemory

\* Mutation of promote_to_longterm: the record is added to longterm and
\* stays in the session collection.
promote_by_copy(session, longterm, memory_id) ==
    LET memory == get_memory(session, longterm, memory_id, "session")
    IN  IF memory = NoMemory
        THEN [session |-> session, longterm |-> longterm, returned |-> NoMemory]
        ELSE LET promoted == [memory EXCEPT !.memory_type = "longterm"]
             IN  [session |-> session,
                  longterm |-> WithAll(longterm, [i \in {memory_id} |-> promoted]),
                  returned |-> promoted]

\* Mutation of promote_to_longterm: the record is looked up without the
\* type hint, in every collection.
promote_any_type(session, longterm, memory_id) ==
    LET memory == get_memory(session, longterm, memory_id, NoType)
    IN  IF memory = NoMemory
        THEN [session |-> session, longterm |-> longterm, returned |-> NoMemory]
        ELSE LET promoted == [memory EXCEPT !.memory_type = "longterm"]
             IN  [session |-> Without(session, {memory_id}),
                  longterm |-> WithAll(longterm, [i \in {memory_id} |-> promoted]),
                  returned |-> promoted]

\* promote_to_longterm(user_id, memory_id): read from the session
\* collection, delete there, add to longterm with memory_type longterm.
promote_to_longterm(session, longterm, memory_id) ==
    LET memory == get_memory(session, longterm, memory_id, "session")
    IN  IF memory = NoMemory
        THEN [session |-> session, longterm |-> longterm, returned |-> NoMemory]
        ELSE LET promoted == [memory EXCEPT !.memory_type = "longterm"]
             IN  [session |-> Without(session, {memory_id}),
                  longterm |-> WithAll(longterm, [i \in {memory_id} |-> promoted]),
                  returned |-> promoted]

\* The ids get_session_memories(user_id, session_id, limit) can return: the
\* query gives at most limit of the records of the session.
get_session_memories(session, session_id, limit) ==
    LET all == {i \in DOMAIN session : session[i].session_id = session_id}
    IN  IF Cardinality(all) <= limit THEN {all}
        ELSE {got \in SUBSET all : Cardinality(got) = limit}

\* delete_memory(user_id, memory_id, memory_type): deletes from the first
\* collection of types_to_check that holds the id.
delete_memory(session, longterm, memory_id, memory_type) ==
    IF memory_type \in {NoType, "session"} /\ memory_id \in DOMAIN session
    THEN [session |-> Without(session, {memory_id}), longterm |-> longterm,
          returned |-> TRUE]
    ELSE IF memory_type \in {NoType, "longterm"} /\ memory_id \in DOMAIN longterm
    THEN [session |-> session, longterm |-> Without(longterm, {memory_id}),
          returned |-> TRUE]
    ELSE [session |-> session, longterm |-> longterm, returned |-> FALSE]

\* The loop of cleanup_session_memories over the memories it was given.
RECURSIVE cleanup_loop(_, _, _, _, _, _)
cleanup_loop(session, longterm, memories, keep_important, threshold, deleted) ==
    IF memories = {}
    THEN [session |-> session, longterm |-> longterm, returned |-> deleted]
    ELSE LET memory_id == CHOOSE i \in memories : TRUE
             rest == memories \ {memory_id}
         IN  IF keep_important
                /\ session[memory_id].importance_score >= threshold
             THEN LET p == promote_to_longterm(session, longterm, memory_id)
                  IN  cleanup_loop(p.session, p.longterm, rest, keep_important,
                                   threshold, deleted)
             ELSE LET d == delete_memory(session, longterm, memory_id, "session")
                  IN  cleanup_loop(d.session, d.longterm, rest, keep_important,
                                   threshold,
                                   IF d.returned THEN deleted + 1 ELSE deleted)

MemInit ==
    /\ pc = "memory"
    /\ sessionColl = <<>>
    /\ longtermColl = <<>>
    /\ nextId = 0
    /\ mres = [op |-> "none"]
    /\ addr = None /\ name = None /\ parsed = None /\ sameName = {}
    /\ collections = {}
    /\ lookup = [op |-> "none"]
    /\ store = <<>>
    /\ result = [op |-> "none"]
    /\ chroma = <<>> /\ made = <<>> /\ cache = <<>> /\ cres = [op |-> "none"]
    /\ matching = <<>> /\ contentLen = 0 /\ ctx = [op |-> "none"]
    /\ liveIndex = {} /\ syncRes = [op |-> "none"]
    /\ workers = <<>> /\ started = 0 /\ reads = 0 /\ plog = <<>>
    /\ redis = <<>> /\ calls = <<>> /\ dead = {} /\ acked = <<>> /\ sres = [op |-> "none"]
    /\ metaColl = <<>> /\ metaRes = [op |-> "none"]
    /\ aws = <<>> /\ fres = [op |-> "none"]
    /\ stateDocs = <<>> /\ liveDocs = <<>> /\ cmp = [op |-> "none"]

\* store_memory(user_id, content, memory_type, session_id, importance_score)
MemStoreMemory ==
    \E content \in Contents, memory_type \in MemoryTypes,
       session_id \in SessionIds, importance_score \in Importances :
        LET memory_id == nextId + 1
            memory == [memory_id |-> memory_id, content |-> content,
                       memory_type |-> memory_type, session_id |-> session_id,
                       importance_score |-> importance_score]
        IN  /\ nextId < MaxMemories
            /\ nextId' = memory_id
            /\ IF memory_type = "session"
               THEN /\ sessionColl' = WithAll(sessionColl,
                                              [i \in {memory_id} |-> memory])
                    /\ UNCHANGED longtermColl
               ELSE /\ longtermColl' = WithAll(longtermColl,
                                               [i \in {memory_id} |-> memory])
                    /\ UNCHANGED sessionColl
            /\ mres' = [op |-> "store_memory", memory_id |-> memory_id]
            /\ UNCHANGED <<pc, nsVars, discVars, searchVars, cacheVars,
                           budgetVars, driftVars, fetchVars, metaVars, sessVars, stepVars, syncVars>>

\* promote_to_longterm(user_id, memory_id)
MemPromote ==
    \E memory_id \in 1..MaxMemories :
        LET p == promote_to_longterm(sessionColl, longtermColl, memory_id)
        IN  /\ sessionColl' = p.session
            /\ longtermColl' = p.longterm
            /\ mres' = [op |-> "promote_to_longterm", memory_id |-> memory_id,
                        returned |-> p.returned]
            /\ UNCHANGED <<nextId, pc, nsVars, discVars, searchVars, cacheVars,
                           budgetVars, driftVars, fetchVars, metaVars, sessVars, stepVars, syncVars>>

\* delete_memory(user_id, memory_id, memory_type)
MemDelete ==
    \E memory_id \in 1..MaxMemories, memory_type \in MemoryTypes \cup {NoType} :
        LET d == delete_memory(sessionColl, longtermColl, memory_id, memory_type)
        IN  /\ sessionColl' = d.session
            /\ longtermColl' = d.longterm
            /\ mres' = [op |-> "delete_memory", memory_id |-> memory_id,
                        returned |-> d.returned]
            /\ UNCHANGED <<nextId, pc, nsVars, discVars, searchVars, cacheVars,
                           budgetVars, driftVars, fetchVars, metaVars, sessVars, stepVars, syncVars>>

\* cleanup_session_memories(user_id, session_id, keep_important,
\* importance_threshold)
MemCleanup ==
    \E session_id \in SessionIds, keep_important \in BOOLEAN,
       importance_threshold \in Thresholds :
        \E memories \in get_session_memories(sessionColl, session_id,
                                             SessionMemoriesLimit) :
            LET c == cleanup_loop(sessionColl, longtermColl, memories,
                                  keep_important, importance_threshold, 0)
            IN  /\ sessionColl' = c.session
                /\ longtermColl' = c.longterm
                /\ mres' = [op |-> "cleanup_session_memories",
                            session_id |-> session_id,
                            keep_important |-> keep_important,
                            importance_threshold |-> importance_threshold,
                            returned |-> c.returned]
                /\ UNCHANGED <<nextId, pc, nsVars, discVars, searchVars,
                               cacheVars, budgetVars, driftVars, fetchVars, metaVars, sessVars, stepVars, syncVars>>

MemNext ==
    \/ MemStoreMemory
    \/ MemPromote
    \/ MemDelete
    \/ MemCleanup

SpecMem == MemInit /\ [][MemNext]_vars

\* C17: promote_to_longterm for an id the session collection does not hold
\* returns None and leaves the session and the longterm collection as they
\* were.
C17_PromoteMissing ==
    [][(mres'.op = "promote_to_longterm"
        /\ mres'.memory_id \notin DOMAIN sessionColl)
       => (/\ mres'.returned = NoMemory
           /\ sessionColl' = sessionColl
           /\ longtermColl' = longtermColl)]_vars

\* promote_to_longterm was called for an id that only the longterm
\* collection holds, next to a record in the session collection.
C17_Witness ==
    /\ mres.op = "promote_to_longterm"
    /\ mres.returned = NoMemory
    /\ mres.memory_id \in DOMAIN longtermColl
    /\ DOMAIN sessionColl # {}

\* C18: when promote_to_longterm returns a memory for an id of the session
\* collection, the id is gone from the session collection and the longterm
\* collection holds the record under the same id, with the same content and
\* the memory_type longterm; and no id is ever in both collections.
C18_PromotionMoves ==
    /\ [](DOMAIN sessionColl \cap DOMAIN longtermColl = {})
    /\ [][(/\ mres'.op = "promote_to_longterm"
           /\ mres'.returned # NoMemory
           /\ mres'.memory_id \in DOMAIN sessionColl)
          => LET id == mres'.memory_id
             IN  /\ id \notin DOMAIN sessionColl'
                 /\ id \in DOMAIN longtermColl'
                 /\ longtermColl'[id].memory_id = id
                 /\ longtermColl'[id].content = sessionColl[id].content
                 /\ longtermColl'[id].memory_type = "longterm"
                 /\ mres'.returned = longtermColl'[id]]_vars

\* promote_to_longterm returned a memory, now in the longterm collection,
\* while another record stays in the session collection.
C18_Witness ==
    /\ mres.op = "promote_to_longterm"
    /\ mres.returned # NoMemory
    /\ mres.memory_id \in DOMAIN longtermColl
    /\ DOMAIN sessionColl # {}

\* C19: cleanup_session_memories promotes every memory of the session whose
\* importance is at least the threshold when keep_important is set, deletes
\* every other memory of the session, and returns the number of records it
\* deleted, promotions not counted.
C19_CleanupPolicy ==
    [][mres'.op = "cleanup_session_memories"
       => LET mine == {i \in DOMAIN sessionColl :
                        sessionColl[i].session_id = mres'.session_id}
              kept == {i \in mine :
                        /\ mres'.keep_important
                        /\ sessionColl[i].importance_score
                                >= mres'.importance_threshold}
          IN  /\ \A i \in kept :
                    i \notin DOMAIN sessionColl' /\ i \in DOMAIN longtermColl'
              /\ \A i \in mine \ kept :
                    i \notin DOMAIN sessionColl' /\ i \notin DOMAIN longtermColl'
              /\ mres'.returned = Cardinality(mine \ kept)]_vars

\* C30: when cleanup_session_memories(user, session) has returned, the
\* session collection holds no record of that session, however many were
\* stored for it: every one of them was deleted or moved to the longterm
\* collection.
C30_CleanupCompleteness ==
    [][mres'.op = "cleanup_session_memories"
       => /\ \A i \in DOMAIN sessionColl' :
                sessionColl'[i].session_id # mres'.session_id
          /\ \A i \in DOMAIN sessionColl :
                sessionColl[i].session_id = mres'.session_id
                    => (i \in DOMAIN longtermColl' \/ i \notin DOMAIN sessionColl')]_vars

\* ------------------------------------------------------------------------
\* Live resource fetch (AWSResourceFetcher.fetch_all_resources)
\* ------------------------------------------------------------------------

\* Longest resource_types list of a request.
MaxRequestTypes == 3

\* Members of SUPPORTED_RESOURCE_TYPES: two with a _fetch_ method, one
\* (nlb) without.
SUPPORTED_RESOURCE_TYPES == {"ec2", "vpc", "nlb"}
FetcherMethods == {"ec2", "vpc"}

\* What a request can name: the supported types and one that is not.
RequestTypes == SUPPORTED_RESOURCE_TYPES \cup {"instance"}

\* What a describe call does: returns resources, returns none, raises
\* ClientError or NoCredentialsError, raises anything else.
AwsBehaviours == {"resources", "no_resources", "client_error", "other_error"}

\* The resources AWS holds of a type.
ResourcesOf(rt) == <<[resource_type |-> rt, resource_id |-> "r-1"]>>

\* fetch_resources(resource_type, region): a list, or the exception that
\* leaves it.
fetch_resources(rt, behaviour) ==
    IF rt \notin FetcherMethods THEN [kind |-> "list", items |-> <<>>]
    ELSE CASE behaviour[rt] = "resources" ->
                [kind |-> "list", items |-> ResourcesOf(rt)]
           [] behaviour[rt] = "no_resources" -> [kind |-> "list", items |-> <<>>]
           [] behaviour[rt] = "client_error" -> [kind |-> "list", items |-> <<>>]
           [] behaviour[rt] = "other_error" -> [kind |-> "exception"]

\* The tasks: one fetch per supported type of the request, in its order.
supported_of(resource_types) ==
    SelectSeq(resource_types, LAMBDA rt : rt \in SUPPORTED_RESOURCE_TYPES)

\* fetch_all_resources(resource_types, region): results holds one entry per
\* task, output reads results at the index of the type in resource_types.
fetch_all_resources(resource_types, behaviour) ==
    LET tasks == supported_of(resource_types)
        results == [i \in 1..Len(tasks) |-> fetch_resources(tasks[i], behaviour)]
        asked == {resource_types[i] : i \in 1..Len(resource_types)}
        \* a dict keeps the value of the last assignment to a key
        last(rt) == CHOOSE i \in 1..Len(resource_types) :
                        /\ resource_types[i] = rt
                        /\ \A j \in (i + 1)..Len(resource_types) :
                                resource_types[j] # rt
        at(i) == IF i <= Len(results)
                 THEN IF results[i].kind = "list" THEN results[i].items ELSE <<>>
                 ELSE <<>>
    IN  [rt \in asked \cap SUPPORTED_RESOURCE_TYPES |-> at(last(rt))]

FetchInit ==
    /\ pc = "fetch"
    /\ aws = [rt \in FetcherMethods |-> "resources"]
    /\ fres = [op |-> "none"]
    /\ addr = None /\ name = None /\ parsed = None /\ sameName = {}
    /\ collections = {}
    /\ lookup = [op |-> "none"]
    /\ store = <<>>
    /\ result = [op |-> "none"]
    /\ chroma = <<>> /\ made = <<>> /\ cache = <<>> /\ cres = [op |-> "none"]
    /\ matching = <<>> /\ contentLen = 0 /\ ctx = [op |-> "none"]
    /\ liveIndex = {} /\ syncRes = [op |-> "none"]
    /\ workers = <<>> /\ started = 0 /\ reads = 0 /\ plog = <<>>
    /\ redis = <<>> /\ calls = <<>> /\ dead = {} /\ acked = <<>> /\ sres = [op |-> "none"]
    /\ metaColl = <<>> /\ metaRes = [op |-> "none"]
    /\ stateDocs = <<>> /\ liveDocs = <<>> /\ cmp = [op |-> "none"]
    /\ sessionColl = <<>> /\ longtermColl = <<>> /\ nextId = 0
    /\ mres = [op |-> "none"]

\* The account changes: what the describe call of a type does from now on.
FetchAwsChanges ==
    \E rt \in FetcherMethods, b \in AwsBehaviours :
        /\ fres.op = "none"
        /\ aws[rt] # b
        /\ aws' = [aws EXCEPT ![rt] = b]
        /\ UNCHANGED <<fres, pc, nsVars, discVars, searchVars, cacheVars,
                       budgetVars, driftVars, memVars, metaVars, sessVars, stepVars, syncVars>>

\* fetch_all_resources(resource_types, region)
FetchAllResources ==
    \E resource_types \in ListsUpTo(RequestTypes, MaxRequestTypes) :
        /\ fres.op = "none"
        /\ fres' = [op |-> "fetch_all_resources",
                    resource_types |-> resource_types,
                    outcome |-> "returned",
                    output |-> fetch_all_resources(resource_types, aws)]
        /\ UNCHANGED <<aws, pc, nsVars, discVars, searchVars, cacheVars,
                       budgetVars, driftVars, memVars, metaVars, sessVars, stepVars, syncVars>>

FetchNext ==
    \/ FetchAwsChanges
    \/ FetchAllResources

SpecFetch == FetchInit /\ [][FetchNext]_vars

\* C20: fetch_all_resources does not raise; every supported type of the
\* request whose fetch fails is reported with an empty list, unsupported
\* types are left out, and the other types are reported with their results.
C20_FetchFailureIsolation ==
    fres.op = "fetch_all_resources" =>
        /\ fres.outcome = "returned"
        /\ DOMAIN fres.output
            = {fres.resource_types[i] : i \in 1..Len(fres.resource_types)}
                \cap SUPPORTED_RESOURCE_TYPES
        /\ \A rt \in DOMAIN fres.output :
            LET own == fetch_resources(rt, aws)
            IN  fres.output[rt] = IF own.kind = "list" THEN own.items ELSE <<>>

\* C28: whatever the order of the requested types, unsupported ones in front
\* or in between included, a supported type whose own fetch returned a list
\* is reported with that list: not with the list of another type, and not
\* with an empty list when its own fetch returned resources.
C28_FetchAlignment ==
    fres.op = "fetch_all_resources" =>
        \A i \in 1..Len(fres.resource_types) :
            LET rt == fres.resource_types[i]
                own == fetch_resources(rt, aws)
            IN  (rt \in SUPPORTED_RESOURCE_TYPES /\ own.kind = "list")
                    => /\ rt \in DOMAIN fres.output
                       /\ fres.output[rt] = own.items

\* ------------------------------------------------------------------------
\* Metadata sanitization: add_documents and update_documents
\* ------------------------------------------------------------------------

\* Longest list a metadata value holds.
MaxListLen == 2

\* Documents a collection of the metadata check holds at most.
MaxDocs == 2

\* Python values.  A value that is not a container is [t, v] with t its type
\* and v its str() form; a list or a tuple is [t, items].
PyNone == [t |-> "NoneType", v |-> <<"None">>]
PyScalars ==
    { [t |-> "bool", v |-> <<"True">>], [t |-> "int", v |-> <<"1">>],
      [t |-> "float", v |-> <<"1.5">>], [t |-> "str", v |-> <<"a">>],
      [t |-> "str", v |-> <<>>] }

\* What lists and tuples of metadata hold.
PyElements == {PyNone, [t |-> "int", v |-> <<"1">>], [t |-> "str", v |-> <<"a">>]}

PyLists == {[t |-> "list", items |-> l] : l \in ListsUpTo(PyElements, MaxListLen)}
PyTuples == {[t |-> "tuple", items |-> <<[t |-> "str", v |-> <<"a">>], PyNone>>]}

\* The raw metadata values the services hand to the store.
PyValues == {PyNone} \cup PyScalars \cup PyLists \cup PyTuples

\* The one metadata key of the check.
MetaKeys == {"tags"}
RawMetadatas == [MetaKeys -> PyValues]

\* str(value)
RECURSIVE py_repr_items(_)
py_repr_items(items) ==
    IF Len(items) = 0 THEN <<>>
    ELSE (IF Head(items).t = "str" THEN <<"'">> \o Head(items).v \o <<"'">>
          ELSE Head(items).v)
         \o (IF Len(items) > 1 THEN <<",", " ">> ELSE <<>>)
         \o py_repr_items(Tail(items))

py_str(value) ==
    CASE value.t = "list" -> <<"[">> \o py_repr_items(value.items) \o <<"]">>
      [] value.t = "tuple" -> <<"(">> \o py_repr_items(value.items) \o <<")">>
      [] OTHER -> value.v

\* ",".join(strs)
RECURSIVE comma_join(_)
comma_join(strs) ==
    IF Len(strs) = 0 THEN <<>>
    ELSE IF Len(strs) = 1 THEN strs[1]
    ELSE strs[1] \o <<",">> \o comma_join(Tail(strs))

\* [str(v) for v in value if v is not None]
RECURSIVE strs_of_present(_)
strs_of_present(items) ==
    IF Len(items) = 0 THEN <<>>
    ELSE (IF Head(items) = PyNone THEN <<>> ELSE <<py_str(Head(items))>>)
         \o strs_of_present(Tail(items))

\* [str(v) for v in value]
strs_of_all(items) == [i \in 1..Len(items) |-> py_str(items[i])]

PyString(s) == [t |-> "str", v |-> s]

sanitize_value(value) ==
    IF value = PyNone THEN PyString(<<>>)
    ELSE IF value.t \in {"str", "int", "float", "bool"} THEN value
    ELSE IF value.t = "list" THEN PyString(comma_join(strs_of_present(value.items)))
    ELSE PyString(py_str(value))

\* A sanitizer that joins every element of a list, None included.
sanitize_metadata_joining_all(metadata) ==
    [key \in DOMAIN metadata |->
        IF metadata[key].t = "list"
        THEN PyString(comma_join(strs_of_all(metadata[key].items)))
        ELSE sanitize_value(metadata[key])]

sanitize_metadata(metadata) ==
    [key \in DOMAIN metadata |-> sanitize_value(metadata[key])]

MetaInit ==
    /\ pc = "meta"
    /\ metaColl = <<>>
    /\ metaRes = [op |-> "none"]
    /\ addr = None /\ name = None /\ parsed = None /\ sameName = {}
    /\ collections = {}
    /\ lookup = [op |-> "none"]
    /\ store = <<>>
    /\ result = [op |-> "none"]
    /\ chroma = <<>> /\ made = <<>> /\ cache = <<>> /\ cres = [op |-> "none"]
    /\ matching = <<>> /\ contentLen = 0 /\ ctx = [op |-> "none"]
    /\ liveIndex = {} /\ syncRes = [op |-> "none"]
    /\ workers = <<>> /\ started = 0 /\ reads = 0 /\ plog = <<>>
    /\ redis = <<>> /\ calls = <<>> /\ dead = {} /\ acked = <<>> /\ sres = [op |-> "none"]
    /\ stateDocs = <<>> /\ liveDocs = <<>> /\ cmp = [op |-> "none"]
    /\ sessionColl = <<>> /\ longtermColl = <<>> /\ nextId = 0
    /\ mres = [op |-> "none"]
    /\ aws = <<>> /\ fres = [op |-> "none"]

\* add_documents(collection_name, [text], [metadata], [id]) with a new id.
MetaAddDocuments ==
    \E id \in 1..MaxDocs, metadata \in RawMetadatas :
        /\ id \notin DOMAIN metaColl
        /\ metaColl' = (id :> sanitize_metadata(metadata)) @@ metaColl
        /\ metaRes' = [op |-> "add_documents", id |-> id, metadata |-> metadata]
        /\ UNCHANGED <<pc, nsVars, discVars, searchVars, cacheVars, budgetVars,
                       driftVars, memVars, fetchVars, sessVars, stepVars, syncVars>>

\* update_documents(collection_name, [id], metadatas=[metadata]) of a stored
\* document: the store overwrites the keys the call gives.
MetaUpdateDocuments ==
    \E id \in DOMAIN metaColl, metadata \in RawMetadatas :
        /\ metaColl' = [metaColl EXCEPT ![id] = sanitize_metadata(metadata) @@ @]
        /\ metaRes' = [op |-> "update_documents", id |-> id, metadata |-> metadata]
        /\ UNCHANGED <<pc, nsVars, discVars, searchVars, cacheVars, budgetVars,
                       driftVars, memVars, fetchVars, sessVars, stepVars, syncVars>>

MetaNext == MetaAddDocuments \/ MetaUpdateDocuments

SpecMeta == MetaInit /\ [][MetaNext]_vars

\* Every metadata value a collection stores is a boolean, an integer, a float
\* or a string.
StoredTypesOk ==
    \A id \in DOMAIN metaColl : \A key \in DOMAIN metaColl[id] :
        metaColl[id][key].t \in {"bool", "int", "float", "str"}

\* The value the last call stored under key, and the value it was given.
StoredBy(key) == metaColl[metaRes.id][key]
GivenTo(key) == metaRes.metadata[key]

\* C22: after any sequence of add_documents and update_documents calls every
\* stored metadata value is a boolean, an integer, a float or a string; a
\* null input is stored as the empty string and a sequence (list or tuple) as
\* the comma-joined string of its elements.
C22_SanitizedMetadata ==
    /\ StoredTypesOk
    /\ metaRes.op # "none" =>
        \A key \in DOMAIN metaRes.metadata :
            /\ GivenTo(key) = PyNone => StoredBy(key) = PyString(<<>>)
            /\ GivenTo(key).t \in {"list", "tuple"} =>
                StoredBy(key) = PyString(comma_join(strs_of_all(GivenTo(key).items)))

\* C22, as the code has it: every stored metadata value is a boolean, an
\* integer, a float or a string; a null input is stored as the empty string,
\* a list as the comma-joined string of the str() forms of its elements other
\* than None, and any other value that is not one of the four types (a
\* tuple) as its str() form.
C22_SanitizedMetadataPresentElements ==
    /\ StoredTypesOk
    /\ metaRes.op # "none" =>
        \A key \in DOMAIN metaRes.metadata :
            /\ GivenTo(key) = PyNone => StoredBy(key) = PyString(<<>>)
            /\ GivenTo(key).t \in {"bool", "int", "float", "str"} =>
                StoredBy(key) = GivenTo(key)
            /\ GivenTo(key).t = "list" =>
                StoredBy(key) = PyString(comma_join(strs_of_present(GivenTo(key).items)))
            /\ GivenTo(key).t = "tuple" => StoredBy(key) = PyString(py_str(GivenTo(key)))

\* An update has stored a list with a None element, on a document that held
\* another value before.
C22_Witness ==
    /\ metaRes.op = "update_documents"
    /\ GivenTo("tags") = [t |-> "list", items |-> <<[t |-> "str", v |-> <<"a">>], PyNone>>]
    /\ StoredBy("tags") = PyString(<<"a">>)
    /\ Cardinality(DOMAIN metaColl) = MaxDocs

\* ------------------------------------------------------------------------
\* MemoryService, store operation by store operation
\* ------------------------------------------------------------------------

\* The processes (or threads) that serve requests against the same store.
MaxWorkers == 2

\* get_memory reads issued at most.
MaxGets == 3

\* The record store_memory wrote before the calls under check.
StoredMemory(memory_id) ==
    [memory_id |-> memory_id, content |-> "note", memory_type |-> "session",
     session_id |-> "s1", importance_score |-> 6,
     accessed_at |-> 0, access_count |-> 0]

\* vector_store.get_by_ids(collection_name, [memory_id])
get_by_ids(coll, memory_id) ==
    IF memory_id \in DOMAIN coll THEN coll[memory_id] ELSE NoMemory

\* get_memory after the read: accessed_at = utcnow(), access_count += 1
touched(memory, time) ==
    [memory EXCEPT !.accessed_at = time, !.access_count = @ + 1]

\* vector_store.update_documents(collection_name, [memory_id], metadatas):
\* the store overwrites the metadata of an id it holds and ignores others.
update_documents(coll, memory_id, memory) ==
    IF memory_id \in DOMAIN coll THEN [coll EXCEPT ![memory_id] = memory] ELSE coll

Idle == [op |-> "idle"]

StepIdleOthers ==
    /\ addr = None /\ name = None /\ parsed = None /\ sameName = {}
    /\ collections = {}
    /\ lookup = [op |-> "none"]
    /\ store = <<>>
    /\ result = [op |-> "none"]
    /\ chroma = <<>> /\ made = <<>> /\ cache = <<>> /\ cres = [op |-> "none"]
    /\ matching = <<>> /\ contentLen = 0 /\ ctx = [op |-> "none"]
    /\ liveIndex = {} /\ syncRes = [op |-> "none"]
    /\ redis = <<>> /\ calls = <<>> /\ dead = {} /\ acked = <<>> /\ sres = [op |-> "none"]
    /\ metaColl = <<>> /\ metaRes = [op |-> "none"]
    /\ stateDocs = <<>> /\ liveDocs = <<>> /\ cmp = [op |-> "none"]
    /\ mres = [op |-> "none"]
    /\ aws = <<>> /\ fres = [op |-> "none"]

AccInit ==
    /\ pc = "access"
    /\ sessionColl = [i \in 1..MaxMemories |-> StoredMemory(i)]
    /\ longtermColl = <<>>
    /\ nextId = MaxMemories
    /\ workers = [w \in 1..MaxWorkers |-> Idle]
    /\ started = 0
    /\ reads = [i \in 1..MaxMemories |-> 0]
    /\ plog = <<>>
    /\ StepIdleOthers

\* get_memory(user_id, memory_id, SESSION), up to the read: get_by_ids, then
\* the count is raised on the entry the worker holds.
AccRead ==
    \E w \in 1..MaxWorkers, memory_id \in 1..MaxMemories :
        LET memory == get_by_ids(sessionColl, memory_id)
        IN  /\ workers[w].op = "idle"
            /\ started < MaxGets
            /\ memory # NoMemory
            /\ started' = started + 1
            /\ workers' = [workers EXCEPT ![w] =
                            [op |-> "get_memory", memory_id |-> memory_id,
                             memory |-> touched(memory, started + 1)]]
            /\ UNCHANGED <<sessionColl, longtermColl, nextId, mres, reads, plog, pc,
                           nsVars, discVars, searchVars, cacheVars, budgetVars,
                           driftVars, fetchVars, metaVars, sessVars, syncVars>>

\* get_memory, from the write on: update_documents with the entry the
\* worker holds, and the entry is returned.
AccUpdate ==
    \E w \in 1..MaxWorkers :
        /\ workers[w].op = "get_memory"
        /\ sessionColl' = update_documents(sessionColl, workers[w].memory_id,
                                           workers[w].memory)
        /\ reads' = [reads EXCEPT ![workers[w].memory_id] = @ + 1]
        /\ workers' = [workers EXCEPT ![w] = Idle]
        /\ UNCHANGED <<longtermColl, nextId, mres, started, plog, pc,
                       nsVars, discVars, searchVars, cacheVars, budgetVars,
                       driftVars, fetchVars, metaVars, sessVars, syncVars>>

AccNext == AccRead \/ AccUpdate

SpecAccess == AccInit /\ [][AccNext]_vars

\* C24: whatever the interleaving of concurrent get_memory calls on a
\* record, once n of them have returned it and none is in flight the stored
\* access_count has grown by exactly n.
C24_AccessCounting ==
    (\A w \in 1..MaxWorkers : workers[w].op = "idle")
        => \A i \in DOMAIN sessionColl : sessionColl[i].access_count = reads[i]

\* ------------------------------------------------------------------------
\* promote_to_longterm, store operation by store operation
\* ------------------------------------------------------------------------

\* No promotion in flight.
NoCall ==
    [op |-> "idle", memory_id |-> 0, memory |-> NoMemory, step |-> "return",
     status |-> "idle"]

\* The store operations of promote_to_longterm in the order of the code: the
\* two of get_memory, then delete_documents, then add_documents.
PromotionSteps ==
    <<"get_by_ids", "update_documents", "delete_documents", "add_documents">>

\* A promotion that adds to longterm before it deletes from the session
\* collection.
step_after_adding_first(step) ==
    CASE step = "get_by_ids" -> "update_documents"
      [] step = "update_documents" -> "add_documents"
      [] step = "add_documents" -> "delete_documents"
      [] step = "delete_documents" -> "return"

\* The statement promote_to_longterm reaches when step is done.
step_after(step) ==
    CASE step = "get_by_ids" -> "update_documents"
      [] step = "update_documents" -> "delete_documents"
      [] step = "delete_documents" -> "add_documents"
      [] step = "add_documents" -> "return"

\* The call after one more of its store operations.
Advance(call, step) ==
    [call EXCEPT !.step = step_after(step),
                 !.status = IF step_after(step) = "return" THEN "returned" ELSE @]

PromInit ==
    /\ pc = "promote"
    /\ sessionColl = <<>>
    /\ longtermColl = <<>>
    /\ nextId = 0
    /\ workers = <<NoCall>>
    /\ started = 0
    /\ reads = 0
    /\ plog = <<>>
    /\ StepIdleOthers

\* store_memory(user_id, content, memory_type, session_id), by any client.
PromStoreMemory ==
    \E memory_type \in MemoryTypes :
        LET memory_id == nextId + 1
            memory == [StoredMemory(memory_id) EXCEPT !.memory_type = memory_type]
        IN  /\ nextId < MaxMemories
            /\ nextId' = memory_id
            /\ IF memory_type = "session"
               THEN /\ sessionColl' = WithAll(sessionColl, [i \in {memory_id} |-> memory])
                    /\ UNCHANGED longtermColl
               ELSE /\ longtermColl' = WithAll(longtermColl, [i \in {memory_id} |-> memory])
                    /\ UNCHANGED sessionColl
            /\ UNCHANGED <<workers, started, reads, plog, mres, pc, nsVars, discVars,
                           searchVars, cacheVars, budgetVars, driftVars, fetchVars,
                           metaVars, sessVars, syncVars>>

\* delete_memory(user_id, memory_id), by any client.
PromDeleteMemory ==
    \E memory_id \in 1..MaxMemories :
        LET d == delete_memory(sessionColl, longtermColl, memory_id, NoType)
        IN  /\ d.returned
            /\ sessionColl' = d.session
            /\ longtermColl' = d.longterm
            /\ UNCHANGED <<workers, started, reads, plog, nextId, mres, pc, nsVars,
                           discVars, searchVars, cacheVars, budgetVars, driftVars,
                           fetchVars, metaVars, sessVars, syncVars>>

\* promote_to_longterm(user_id, memory_id) starts: get_memory reads the
\* session collection; without a record the call returns None.
PromGetByIds ==
    \E memory_id \in 1..MaxMemories :
        LET memory == get_by_ids(sessionColl, memory_id)
        IN  /\ workers[1].status # "running"
            /\ started < MaxGets
            /\ started' = started + 1
            /\ IF memory = NoMemory
               THEN /\ workers' = <<[NoCall EXCEPT !.op = "promote_to_longterm",
                                                   !.memory_id = memory_id,
                                                   !.status = "returned_none"]>>
                    /\ plog' = <<>>
               ELSE /\ workers' = <<[op |-> "promote_to_longterm",
                                     memory_id |-> memory_id,
                                     memory |-> touched(memory, started + 1),
                                     step |-> step_after("get_by_ids"),
                                     status |-> "running"]>>
                    /\ plog' = <<"get_by_ids">>
            /\ UNCHANGED <<sessionColl, longtermColl, nextId, reads, mres, pc, nsVars,
                           discVars, searchVars, cacheVars, budgetVars, driftVars,
                           fetchVars, metaVars, sessVars, syncVars>>

\* get_memory writes the raised access count back.
PromUpdateDocuments ==
    /\ workers[1].status = "running"
    /\ workers[1].step = "update_documents"
    /\ sessionColl' = update_documents(sessionColl, workers[1].memory_id,
                                       workers[1].memory)
    /\ workers' = <<Advance(workers[1], "update_documents")>>
    /\ plog' = Append(plog, "update_documents")
    /\ UNCHANGED <<longtermColl, nextId, started, reads, mres, pc, nsVars, discVars,
                   searchVars, cacheVars, budgetVars, driftVars, fetchVars,
                   metaVars, sessVars, syncVars>>

\* delete_documents(session_collection, ids=[memory_id])
PromDeleteDocuments ==
    /\ workers[1].status = "running"
    /\ workers[1].step = "delete_documents"
    /\ sessionColl' = Without(sessionColl, {workers[1].memory_id})
    /\ workers' = <<Advance(workers[1], "delete_documents")>>
    /\ plog' = Append(plog, "delete_documents")
    /\ UNCHANGED <<longtermColl, nextId, started, reads, mres, pc, nsVars, discVars,
                   searchVars, cacheVars, budgetVars, driftVars, fetchVars,
                   metaVars, sessVars, syncVars>>

\* add_documents(longterm_collection, ...) of the entry read, as longterm.
PromAddDocuments ==
    LET promoted == [workers[1].memory EXCEPT !.memory_type = "longterm"]
    IN  /\ workers[1].status = "running"
        /\ workers[1].step = "add_documents"
        /\ longtermColl' = WithAll(longtermColl,
                                   [i \in {workers[1].memory_id} |-> promoted])
        /\ workers' = <<Advance(workers[1], "add_documents")>>
        /\ plog' = Append(plog, "add_documents")
        /\ UNCHANGED <<sessionColl, nextId, started, reads, mres, pc, nsVars,
                       discVars, searchVars, cacheVars, budgetVars, driftVars,
                       fetchVars, metaVars, sessVars, syncVars>>

\* add_documents raises (the collection cannot be accessed, the store
\* rejects the write): the exception leaves promote_to_longterm.
PromAddFails ==
    /\ workers[1].status = "running"
    /\ workers[1].step = "add_documents"
    /\ workers' = <<[workers[1] EXCEPT !.status = "failed"]>>
    /\ UNCHANGED <<sessionColl, longtermColl, nextId, started, reads, plog, mres, pc,
                   nsVars, discVars, searchVars, cacheVars, budgetVars, driftVars,
                   fetchVars, metaVars, sessVars, syncVars>>

\* The process stops in the middle of the call.
PromCrash ==
    /\ workers[1].status = "running"
    /\ workers' = <<[workers[1] EXCEPT !.status = "crashed"]>>
    /\ UNCHANGED <<sessionColl, longtermColl, nextId, started, reads, plog, mres, pc,
                   nsVars, discVars, searchVars, cacheVars, budgetVars, driftVars,
                   fetchVars, metaVars, sessVars, syncVars>>

PromNext ==
    \/ PromStoreMemory
    \/ PromDeleteMemory
    \/ PromGetByIds
    \/ PromUpdateDocuments
    \/ PromDeleteDocuments
    \/ PromAddDocuments
    \/ PromAddFails
    \/ PromCrash

SpecPromote == PromInit /\ [][PromNext]_vars

\* The promotion in flight has stopped (crash or failed insert) with the
\* delete done and the insert not.
StoppedAfterDelete ==
    /\ workers[1].status \in {"crashed", "failed"}
    /\ Len(plog) > 0
    /\ plog[Len(plog)] = "delete_documents"

\* C25: the store operations of a promotion happen in the order read,
\* delete from session, insert into longterm: an insert is always preceded
\* by the read of the record and by its delete, no record is in both
\* collections at once, and a promotion that stopped between delete and
\* insert has left the record in neither collection.
C25_PromotionStepOrder ==
    /\ Len(plog) <= Len(PromotionSteps)
    /\ plog = SubSeq(PromotionSteps, 1, Len(plog))
    /\ (\E k \in 1..Len(plog) : plog[k] = "add_documents")
            => workers[1].memory # NoMemory
    /\ \A i \in DOMAIN sessionColl : i \notin DOMAIN longtermColl
    /\ StoppedAfterDelete
            => /\ workers[1].memory_id \notin DOMAIN sessionColl
               /\ workers[1].memory_id \notin DOMAIN longtermColl

\* A promotion whose insert failed after the delete, while the other memory
\* is still stored.
C25_Witness ==
    /\ StoppedAfterDelete
    /\ workers[1].status = "failed"
    /\ workers[1].memory_id \notin DOMAIN sessionColl
    /\ workers[1].memory_id \notin DOMAIN longtermColl
    /\ DOMAIN sessionColl \cup DOMAIN longtermColl # {}

\* ------------------------------------------------------------------------
\* SessionService: concurrent calls on the sessions of one user, one Redis
\* command at a time
\* ------------------------------------------------------------------------

\* Calls in flight at once.
MaxCalls == 2

\* Largest TTL extend_ttl is asked to set.
MaxTtl == 3

SessionUser == <<"a">>

\* The messages clients send, the context and state keys they set, the
\* seconds they extend by.
Messages == {"m1", "m2"}
ContextKeys == {"topic"}
StateKeys == {"phase"}
Extensions == {1}

\* None, for an Optional[SessionData].
NoSession == [none |-> TRUE]

NoSessionCall == [op |-> "idle"]

\* redis.get(key), decoded
redis_get(db, key) == IF key \in DOMAIN db THEN db[key].session ELSE NoSession

\* redis.ttl(key): the remaining seconds, -2 for a key that does not exist.
redis_ttl(db, key) == IF key \in DOMAIN db THEN db[key].ttl ELSE 0 - 2

\* redis.setex(key, ttl, value)
redis_setex(db, key, ttl, session) ==
    [k \in DOMAIN db \cup {key} |->
        IF k = key THEN [session |-> session, ttl |-> ttl] ELSE db[k]]

\* redis.expire(key, ttl): nothing for a key that does not exist.
redis_expire(db, key, ttl) ==
    [k \in DOMAIN db |-> IF k = key THEN [db[k] EXCEPT !.ttl = ttl] ELSE db[k]]

\* The keys of the sessions created so far.
KeysCreated == DOMAIN redis \cup dead

\* The arguments of the calls of an operation that are in flight.
InFlight(op) ==
    {calls[c].arg : c \in {x \in DOMAIN calls : calls[x].op = op}}

SeqRange(q) == {q[i] : i \in 1..Len(q)}

SessInit ==
    /\ pc = "sessions"
    /\ redis = <<>>
    /\ calls = [c \in 1..MaxCalls |-> NoSessionCall]
    /\ dead = {}
    /\ acked = <<>>
    /\ sres = [op |-> "none"]
    /\ workers = <<>> /\ started = 0 /\ reads = 0 /\ plog = <<>>
    /\ metaColl = <<>> /\ metaRes = [op |-> "none"]
    /\ sessionColl = <<>> /\ longtermColl = <<>> /\ nextId = 0
    /\ addr = None /\ name = None /\ parsed = None /\ sameName = {}
    /\ collections = {}
    /\ lookup = [op |-> "none"]
    /\ store = <<>>
    /\ result = [op |-> "none"]
    /\ chroma = <<>> /\ made = <<>> /\ cache = <<>> /\ cres = [op |-> "none"]
    /\ matching = <<>> /\ contentLen = 0
    /\ ctx = [op |-> "none"]
    /\ liveIndex = {} /\ syncRes = [op |-> "none"]
    /\ stateDocs = <<>> /\ liveDocs = <<>> /\ cmp = [op |-> "none"]
    /\ mres = [op |-> "none"]
    /\ aws = <<>> /\ fres = [op |-> "none"]

\* No read is on record.
Quiet == sres.op = "none"

\* The call slot a new call takes: the first free one.
FreeSlot(c) ==
    /\ calls[c].op = "idle"
    /\ \A b \in 1..(c - 1) : calls[b].op # "idle"

SessOthers ==
    <<pc, nsVars, discVars, searchVars, cacheVars, budgetVars, driftVars, memVars,
      fetchVars, metaVars, stepVars, syncVars>>

\* create_session(user_id, ..., ttl_seconds): one SETEX under a fresh id.
SessCreateSession ==
    \E ttl_seconds \in {0} :
        LET ttl == IF ttl_seconds # 0 THEN ttl_seconds ELSE DefaultTtl
            key == build_key(SessionUser, Cardinality(KeysCreated) + 1)
        IN  /\ Quiet
            /\ Cardinality(KeysCreated) < MaxSessions
            /\ redis' = redis_setex(redis, key, ttl, NewSession(ttl))
            /\ UNCHANGED <<calls, dead, acked, sres, SessOthers, syncVars>>

\* A second passes: every TTL runs down and the keys at their end expire.
SessTick ==
    LET expired == {k \in DOMAIN redis : redis[k].ttl = 1}
    IN  /\ Quiet
        /\ DOMAIN redis # {}
        /\ redis' = [k \in DOMAIN redis \ expired |-> [redis[k] EXCEPT !.ttl = @ - 1]]
        /\ dead' = dead \cup expired
        /\ UNCHANGED <<calls, acked, sres, SessOthers, syncVars>>

\* The first command of add_message, update_context and update_state:
\* get_session.  Without a session the call returns False; otherwise the
\* change is made on the decoded copy.
SessBegin(c, key, op, arg) ==
    LET session == redis_get(redis, key)
    IN  /\ Quiet
        /\ FreeSlot(c)
        /\ IF session = NoSession
           THEN UNCHANGED calls
           ELSE calls' = [calls EXCEPT ![c] =
                    [op |-> op, step |-> "ttl", key |-> key, arg |-> arg, ttl |-> 0,
                     session |->
                        CASE op = "add_message" ->
                                [session EXCEPT !.messages = Append(@, arg)]
                          [] op = "update_context" ->
                                [session EXCEPT !.context = @ \cup {arg}]
                          [] op = "update_state" ->
                                [session EXCEPT !.state = @ \cup {arg}]]]
        /\ UNCHANGED <<redis, dead, acked, sres, SessOthers, syncVars>>

SessAddMessage ==
    \E c \in 1..MaxCalls, key \in KeysCreated,
       message \in Messages \ (SeqRange(acked) \cup InFlight("add_message")) :
        SessBegin(c, key, "add_message", message)

SessUpdateContext ==
    \E c \in 1..MaxCalls, key \in KeysCreated, context \in ContextKeys :
        /\ context \notin InFlight("update_context")
        /\ SessBegin(c, key, "update_context", context)

SessUpdateState ==
    \E c \in 1..MaxCalls, key \in KeysCreated, state \in StateKeys :
        /\ state \notin InFlight("update_state")
        /\ SessBegin(c, key, "update_state", state)

\* update_session, first command: the remaining TTL, or the default when
\* redis.ttl answers below zero.
SessUpdateTtl ==
    \E c \in 1..MaxCalls :
        /\ Quiet
        /\ calls[c].op # "idle"
        /\ calls[c].step = "ttl"
        /\ LET ttl == redis_ttl(redis, calls[c].key)
           IN  calls' = [calls EXCEPT ![c].step = "setex",
                                      ![c].ttl = IF ttl < 0 THEN DefaultTtl ELSE ttl]
        /\ UNCHANGED <<redis, dead, acked, sres, SessOthers, syncVars>>

\* update_session, second command: SETEX of the copy; the call returns True.
SessUpdateSetex ==
    \E c \in 1..MaxCalls :
        /\ Quiet
        /\ calls[c].op # "idle"
        /\ calls[c].step = "setex"
        /\ redis' = redis_setex(redis, calls[c].key, calls[c].ttl, calls[c].session)
        /\ acked' = IF calls[c].op = "add_message"
                    THEN Append(acked, calls[c].arg) ELSE acked
        /\ calls' = [calls EXCEPT ![c] = NoSessionCall]
        /\ UNCHANGED <<dead, sres, SessOthers, syncVars>>

\* extend_ttl, first command: the current TTL; below zero the call returns
\* False.
SessExtendTtl ==
    \E c \in 1..MaxCalls, key \in KeysCreated, additional_seconds \in Extensions :
        LET current_ttl == redis_ttl(redis, key)
        IN  /\ Quiet
            /\ FreeSlot(c)
            /\ current_ttl + additional_seconds <= MaxTtl
            /\ IF current_ttl < 0
               THEN UNCHANGED calls
               ELSE calls' = [calls EXCEPT ![c] =
                        [op |-> "extend_ttl", step |-> "expire", key |-> key,
                         arg |-> additional_seconds,
                         ttl |-> current_ttl + additional_seconds,
                         session |-> NoSession]]
            /\ UNCHANGED <<redis, dead, acked, sres, SessOthers, syncVars>>

\* extend_ttl, second command: EXPIRE with the new TTL.
SessExtendExpire ==
    \E c \in 1..MaxCalls :
        /\ Quiet
        /\ calls[c].op = "extend_ttl"
        /\ calls[c].step = "expire"
        /\ redis' = redis_expire(redis, calls[c].key, calls[c].ttl)
        /\ calls' = [calls EXCEPT ![c].step = "get"]
        /\ UNCHANGED <<dead, acked, sres, SessOthers, syncVars>>

\* extend_ttl, third command: get_session; with a session its ttl_seconds
\* is set and update_session follows, without one the call returns True.
SessExtendGet ==
    \E c \in 1..MaxCalls :
        LET session == redis_get(redis, calls[c].key)
        IN  /\ Quiet
            /\ calls[c].op = "extend_ttl"
            /\ calls[c].step = "get"
            /\ calls' = [calls EXCEPT ![c] =
                    IF session = NoSession THEN NoSessionCall
                    ELSE [calls[c] EXCEPT !.step = "ttl", !.session = session]]
            /\ UNCHANGED <<redis, dead, acked, sres, SessOthers, syncVars>>

\* delete_session: one DEL that removes the key; the call returns True.
SessDeleteSession ==
    \E key \in KeysCreated :
        /\ Quiet
        /\ key \in DOMAIN redis
        /\ redis' = RedisWithout(redis, key)
        /\ dead' = dead \cup {key}
        /\ UNCHANGED <<calls, acked, sres, SessOthers, syncVars>>

\* get_session: one GET.  (Reads leave the store as it is; they are taken
\* from the states with no read on record.)
SessGetSession ==
    \E key \in KeysCreated :
        /\ Quiet
        /\ sres' = [op |-> "get_session", key |-> key,
                    returned |-> redis_get(redis, key),
                    found |-> key \in DOMAIN redis,
                    was_dead |-> key \in dead, acked |-> acked]
        /\ UNCHANGED <<redis, calls, dead, acked, SessOthers, syncVars>>

\* get_messages(user_id, session_id) with the default limit and offset,
\* which cover the messages of the session.
SessGetMessages ==
    \E key \in KeysCreated :
        LET session == redis_get(redis, key)
        IN  /\ Quiet
            /\ sres' = [op |-> "get_messages", key |-> key,
                        returned |-> IF session = NoSession THEN <<>>
                                     ELSE session.messages,
                        found |-> key \in DOMAIN redis,
                        was_dead |-> key \in dead, acked |-> acked]
            /\ UNCHANGED <<redis, calls, dead, acked, SessOthers, syncVars>>

SessNext ==
    \/ SessCreateSession
    \/ SessTick
    \/ SessAddMessage
    \/ SessUpdateContext
    \/ SessUpdateState
    \/ SessUpdateTtl
    \/ SessUpdateSetex
    \/ SessExtendTtl
    \/ SessExtendExpire
    \/ SessExtendGet
    \/ SessDeleteSession
    \/ SessGetSession
    \/ SessGetMessages

SpecSession == SessInit /\ [][SessNext]_vars

\* (Every call is taken from the states with no read on record: a read
\* leaves the store as it is, and is the last step of the behaviours checked.)

\* C26: a session that was deleted (delete_session returned True) or whose
\* TTL has run out is not returned by any later get_session, whatever
\* add_message, update_context, update_state or extend_ttl calls were in
\* flight on it: its key is never written again.
C26_NoResurrection ==
    /\ sres.op = "get_session" /\ sres.was_dead => sres.returned = NoSession
    /\ \A key \in dead : key \notin DOMAIN redis

\* acked[from..] is a subsequence of q.
RECURSIVE IsSubSeqFrom(_, _, _)
IsSubSeqFrom(sub, from, q) ==
    IF from > Len(sub) THEN TRUE
    ELSE IF Len(q) = 0 THEN FALSE
    ELSE IF Head(q) = sub[from] THEN IsSubSeqFrom(sub, from + 1, Tail(q))
    ELSE IsSubSeqFrom(sub, from, Tail(q))

\* C27: the messages a read of a live session returns contain every message
\* whose add_message had returned True before the read, in the order in
\* which those calls completed.
C27_NoLostMessages ==
    (sres.op \in {"get_session", "get_messages"} /\ ~sres.was_dead /\ sres.found)
        => IsSubSeqFrom(sres.acked, 1,
                        IF sres.op = "get_session" THEN sres.returned.messages
                        ELSE sres.returned)

\* ------------------------------------------------------------------------
\* Live sync (ContextService.sync_live_state)
\* ------------------------------------------------------------------------

\* The resource_type a fetched resource carries ("aws_instance" for ec2).
aws_type(rt) ==
    CASE rt = "ec2" -> "aws_instance"
      [] rt = "vpc" -> "aws_vpc"
      [] OTHER -> rt

\* resource_type.replace("aws_", "")
strip_aws(resource_type) ==
    CASE resource_type = "aws_instance" -> "instance"
      [] resource_type = "aws_vpc" -> "vpc"
      [] OTHER -> resource_type

\* The type sync_live_state has to be asked for to fetch a stored resource.
fetch_key(resource_type) ==
    CHOOSE rt \in FetcherMethods : aws_type(rt) = resource_type

\* A fetched resource as the live collection holds it.  AWS ids are unique
\* across types (i-..., vpc-...): the id is the pair of type and number.
Indexed(resource) ==
    [resource_id |-> <<resource.resource_type, resource.resource_id>>,
     resource_type |-> aws_type(resource.resource_type)]

\* Longest resource_types filter of a sync.
MaxSyncTypes == 2

\* SUPPORTED_RESOURCE_TYPES, the list.
SupportedList == <<"ec2", "vpc", "nlb">>

\* The orders list(set(...)) can give.
OrdersOf(S) ==
    {l \in ListsUpTo(S, Cardinality(S)) :
        Len(l) = Cardinality(S) /\ {l[i] : i \in 1..Len(l)} = S}

\* resource_types, or the stripped types of the existing resources, or the
\* supported types.
types_to_fetch(resource_types, existing) ==
    LET derived == {strip_aws(c.resource_type) : c \in existing}
    IN  IF resource_types # <<>> THEN {resource_types}
        ELSE IF derived # {} THEN OrdersOf(derived)
        ELSE {SupportedList}

\* The resources of resources_by_type, as indexed.
fetched_resources(resources_by_type) ==
    UNION { {Indexed(resources_by_type[rt][i]) : i \in 1..Len(resources_by_type[rt])} :
            rt \in DOMAIN resources_by_type }

\* "Remove stale resources": every existing resource whose id was not
\* fetched.
stale_resources(existing, resources_by_type) ==
    LET live_ids == {c.resource_id : c \in fetched_resources(resources_by_type)}
    IN  {c \in existing : c.resource_id \notin live_ids}

SyncInit ==
    /\ pc = "sync"
    /\ liveIndex = {}
    /\ syncRes = [op |-> "none"]
    /\ aws = [rt \in FetcherMethods |-> "resources"]
    /\ fres = [op |-> "none"]
    /\ addr = None /\ name = None /\ parsed = None /\ sameName = {}
    /\ collections = {}
    /\ lookup = [op |-> "none"]
    /\ store = <<>>
    /\ result = [op |-> "none"]
    /\ chroma = <<>> /\ made = <<>> /\ cache = <<>> /\ cres = [op |-> "none"]
    /\ matching = <<>> /\ contentLen = 0
    /\ ctx = [op |-> "none"] /\ stateDocs = <<>> /\ liveDocs = <<>> /\ cmp = [op |-> "none"]
    /\ workers = <<>> /\ started = 0 /\ reads = 0 /\ plog = <<>>
    /\ redis = <<>> /\ calls = <<>> /\ dead = {} /\ acked = <<>> /\ sres = [op |-> "none"]
    /\ metaColl = <<>> /\ metaRes = [op |-> "none"]
    /\ sessionColl = <<>> /\ longtermColl = <<>> /\ nextId = 0
    /\ mres = [op |-> "none"]

\* The account changes: what the describe call of a type does from now on.
\* (The reply on record was computed against the account as it was.)
SyncAwsChanges ==
    \E rt \in FetcherMethods, b \in AwsBehaviours :
        /\ aws[rt] # b
        /\ aws' = [aws EXCEPT ![rt] = b]
        /\ syncRes' = [op |-> "none"]
        /\ UNCHANGED <<fres, liveIndex, pc, nsVars, discVars, searchVars,
                       cacheVars, budgetVars, driftVars, memVars, metaVars, sessVars,
                       stepVars>>

\* sync_live_state(user_id, account_id, region, resource_types)
SyncLiveState ==
    \E resource_types \in ListsUpTo(RequestTypes, MaxSyncTypes) :
        \E types \in types_to_fetch(resource_types, liveIndex) :
            LET existing == liveIndex
                resources_by_type == fetch_all_resources(types, aws)
                fetched == fetched_resources(resources_by_type)
                stale == stale_resources(existing, resources_by_type)
            IN  /\ liveIndex' = (existing \ stale) \cup fetched
                /\ syncRes' = [op |-> "sync_live_state",
                               resource_types |-> resource_types,
                               existing |-> existing,
                               added |-> Cardinality(fetched \ existing),
                               updated |-> Cardinality(fetched \cap existing),
                               removed |-> Cardinality(stale)]
                /\ UNCHANGED <<aws, fres, pc, nsVars, discVars, searchVars, cacheVars,
                               budgetVars, driftVars, memVars, metaVars, sessVars,
                               stepVars>>

SyncNext == SyncAwsChanges \/ SyncLiveState

SpecSync == SyncInit /\ [][SyncNext]_vars

\* The fetch of type rt went through: the describe call answered.
ActuallyFetched(rt, behaviour) ==
    rt \in FetcherMethods /\ behaviour[rt] \in {"resources", "no_resources"}

\* C29: a sync with a resource_types filter T removes an indexed live
\* resource only if its type is in T, the fetch of that type went through
\* and the resource is not in what that fetch returned; indexed resources of
\* types outside T or of types that could not be fetched stay in the live
\* collection.
C29_ScopedSync ==
    (syncRes.op = "sync_live_state" /\ syncRes.resource_types # <<>>) =>
        \A c \in syncRes.existing \ liveIndex :
            LET rt == fetch_key(c.resource_type)
                own == fetch_resources(rt, aws)
            IN  /\ \E i \in 1..Len(syncRes.resource_types) : syncRes.resource_types[i] = rt
                /\ ActuallyFetched(rt, aws)
                /\ \A i \in 1..Len(own.items) : Indexed(own.items[i]) # c

====
